---- MODULE Spec2Model ----
(***************************************************************************)
(* Model of the ESP-NOW reliable transfer driver (espnow_driver.c):        *)
(* fragmentation, the per-fragment retry loop, the send mutex, the event   *)
(* group that hands the link layer's completion to the waiting sender, and *)
(* the link layer as a nondeterministic environment.                       *)
(***************************************************************************)
EXTENDS Integers, Sequences, FiniteSets, TLC

(***************************************************************************)
(* Program constants.                                                      *)
(***************************************************************************)
ESPNOW_MAX_PAYLOAD_SIZE == 200
TX_SLOTS == 32
UINT8_MOD == 256
UINT16_MOD == 65536
CRC_INIT == 65535

NULL == "NULL"
NULL_HANDLE == 0
NO_TASK == "no_task"

ESP_OK == "ESP_OK"
ESP_ERR_INVALID_STATE == "ESP_ERR_INVALID_STATE"
ESP_ERR_INVALID_ARG == "ESP_ERR_INVALID_ARG"
ESP_ERR_INVALID_SIZE == "ESP_ERR_INVALID_SIZE"
ESP_ERR_TIMEOUT == "ESP_ERR_TIMEOUT"
ESP_ERR_NO_MEM == "ESP_ERR_NO_MEM"
ESP_FAIL == "ESP_FAIL"

ESPNOW_STATE_IDLE == "IDLE"
ESPNOW_STATE_SENDING == "SENDING"
ESPNOW_STATE_WAIT_ACK == "WAIT_ACK"
ESPNOW_STATE_SUCCESS == "SUCCESS"
ESPNOW_STATE_FAILED == "FAILED"

ESPNOW_SEND_DONE_BIT == "DONE"
ESPNOW_SEND_SUCCESS_BIT == "SUCCESS_BIT"

ESP_NOW_SEND_SUCCESS == "SEND_SUCCESS"
ESP_NOW_SEND_FAIL == "SEND_FAIL"

BROADCAST_MAC == "FF:FF:FF:FF:FF:FF"

(***************************************************************************)
(* Bounds of the model.                                                    *)
(***************************************************************************)
MaxCalls == 2
MaxInits == 2
MaxRetriesCfg == 1
MaxPending == 1
MaxAttemptsLog == 260
MaxFragLen == 1000

Tasks == {"task_a", "task_b"}
Callbacks == {NULL, "on_send_done"}
\* lengths a caller passes in the driver specification: empty, one chunk,
\* three chunks with a short tail, just too large, and a length whose chunk
\* count (257) does not fit the uint8_t that fragment_data computes it in
PEER_MAC == "24:6F:28:AA:BB:CC"
SendArgs ==
    {[dest |-> PEER_MAC, data |-> "sensor_data", len |-> 1],
     [dest |-> BROADCAST_MAC, data |-> "sensor_data", len |-> 401],
     [dest |-> PEER_MAC, data |-> "sensor_data", len |-> 6401],
     [dest |-> PEER_MAC, data |-> "sensor_data", len |-> 51201],
     [dest |-> NULL, data |-> "sensor_data", len |-> 1],
     [dest |-> PEER_MAC, data |-> NULL, len |-> 1],
     [dest |-> PEER_MAC, data |-> "sensor_data", len |-> 0]}
\* configurations an application installs: node n retries n - 1 times
Configs == {[node_id |-> n, wifi_channel |-> n, max_retries |-> n - 1,
             enable_encryption |-> FALSE, pmk |-> "pmk",
             send_timeout_ms |-> 100] :
            n \in 1..(MaxRetriesCfg + 1)}
\* a const espnow_config_t *: <<>> is the null pointer, <<c>> points to c
ConfigPtrs == {<<>>} \cup {<<c>> : c \in Configs}
InitOutcomes == {"ok", "no_mem_mutex", "no_mem_event_group", "init_fail",
                 "pmk_fail", "reg_send_fail", "reg_recv_fail"}

VARIABLES
    s_driver_initialized,   \* static bool
    s_config,               \* static espnow_config_t
    s_send_ctx,             \* static espnow_send_context_t
    s_send_done_callback,   \* static espnow_send_done_cb_t
    s_send_mutex,           \* [handle, owner]: handle NULL or a generation
    s_send_event_group,     \* [handle, bits]
    s_tx_packets,           \* the fragment buffer; slots never written are zero
    s_current_dest_mac,
    sequence_num,           \* static uint16_t of espnow_driver_send
    link_up,                \* esp_now_init done and not deinit'ed
    link_pending,           \* accepted transmits whose completion is outstanding
    task,                   \* per calling task: position and locals
    calls,                  \* number of send calls started
    inits,                  \* number of driver_init calls made
    tx_calls,               \* history: call ids in transmit order, runs merged
    last_tx,                \* history: the frame last handed to esp_now_send
    s_recv_callback,        \* static espnow_recv_cb_t
    s_last_rssi,            \* static int8_t
    link_peers,             \* the peer table of the link layer
    link_depth,             \* how many transmits the link layer takes at a time
    waiter,                 \* the caller of espnow_driver_wait_send_done
    h_entry,                \* history: the function each task's call entered by
    api,                    \* history: the last call of another API function
    h_reg,                  \* history: registrations since the last deinit
    h_recv                  \* history: the last receive callback invocation

vars == <<s_driver_initialized, s_config, s_send_ctx, s_send_done_callback,
          s_send_mutex, s_send_event_group, s_tx_packets, s_current_dest_mac,
          sequence_num, link_up, link_pending, task, calls, inits, tx_calls,
          last_tx, s_recv_callback, s_last_rssi, link_peers, waiter, h_entry,
          link_depth, api, h_reg, h_recv>>

\* what the send path and the link's completions never touch
apiVars == <<s_recv_callback, s_last_rssi, link_peers, waiter, h_entry,
            link_depth, api, h_reg, h_recv>>

Min(a, b) == IF a < b THEN a ELSE b

\* append x to a history in which a run of equal entries is kept once
AppendRun(log, x) ==
    IF Len(log) > 0 /\ log[Len(log)] = x THEN log ELSE Append(log, x)

(***************************************************************************)
(* Caller buffers.  A buffer is named; byte k of buffer data is            *)
(* DataByte(data, k).                                                      *)
(***************************************************************************)
BufferSeed(data) == IF data = "sensor_data" THEN 3 ELSE 97

DataByte(data, k) == (BufferSeed(data) + k + (k \div UINT8_MOD)) % UINT8_MOD

(***************************************************************************)
(* esp_crc16_le is a ROM routine; it is modelled as a 16-bit fold that     *)
(* depends on every byte, on the byte order and on the length.             *)
(***************************************************************************)
crc_step(crc, byte) == (crc * 31 + byte + 1) % UINT16_MOD

\* the fold over bytes[lo..hi-1], split in halves to keep the evaluation
\* shallow; the value of the left half is bound as an element of a singleton
\* set, so that it is computed once and before the right half
RECURSIVE crc_range(_, _, _, _)
crc_range(crc, bytes, lo, hi) ==
    IF hi <= lo THEN crc
    ELSE IF hi = lo + 1 THEN crc_step(crc, bytes[lo])
    ELSE LET mid == (lo + hi) \div 2
         IN  CHOOSE right \in {crc_range(left, bytes, mid, hi) :
                                   left \in {crc_range(crc, bytes, lo, mid)}} : TRUE

esp_crc16_le(crc, bytes, len) == crc_range(crc, bytes, 0, len)

espnow_crc16(bytes, len) == esp_crc16_le(CRC_INIT, bytes, len)

ZeroPacket ==
    [header |-> [node_id |-> 0, packet_sequence |-> 0, total_chunks |-> 0,
                 chunk_index |-> 0, payload_length |-> 0, crc16 |-> 0],
     payload |-> [k \in 0..(ESPNOW_MAX_PAYLOAD_SIZE - 1) |-> 0]]

TxSlot(packets, i) == IF i \in DOMAIN packets THEN packets[i] ELSE ZeroPacket

(***************************************************************************)
(* fragment_data                                                           *)
(***************************************************************************)
\* the chunk count as len / size + 1: one chunk too many at exact multiples
fragment_total_chunks_FloorPlusOne(len) ==
    ((len \div ESPNOW_MAX_PAYLOAD_SIZE) + 1) % UINT8_MOD

fragment_total_chunks(len) ==
    ((len + ESPNOW_MAX_PAYLOAD_SIZE - 1) \div ESPNOW_MAX_PAYLOAD_SIZE) % UINT8_MOD

fragment_offset(i) == i * ESPNOW_MAX_PAYLOAD_SIZE

fragment_chunk_size(len, i) ==
    IF fragment_offset(i) + ESPNOW_MAX_PAYLOAD_SIZE > len
    THEN len - fragment_offset(i)
    ELSE ESPNOW_MAX_PAYLOAD_SIZE

\* fragment_packet with the copy taken from the start of the buffer every time
fragment_packet_NoOffset(data, len, seq, tc, i, old) ==
    LET chunk_size == fragment_chunk_size(len, i)
        payload == [k \in 0..(ESPNOW_MAX_PAYLOAD_SIZE - 1) |->
                       IF k < chunk_size THEN DataByte(data, k)
                       ELSE old.payload[k]]
    IN  [header |-> [node_id |-> s_config.node_id,
                     packet_sequence |-> seq,
                     total_chunks |-> tc,
                     chunk_index |-> i,
                     payload_length |-> chunk_size % UINT16_MOD,
                     crc16 |-> espnow_crc16(payload, chunk_size)],
         payload |-> payload]

\* fragment_packet with the checksum taken over the whole payload array
fragment_packet_CrcWholeArray(data, len, seq, tc, i, old) ==
    LET offset == fragment_offset(i)
        chunk_size == fragment_chunk_size(len, i)
        payload == [k \in 0..(ESPNOW_MAX_PAYLOAD_SIZE - 1) |->
                       IF k < chunk_size THEN DataByte(data, offset + k)
                       ELSE old.payload[k]]
    IN  [header |-> [node_id |-> s_config.node_id,
                     packet_sequence |-> seq,
                     total_chunks |-> tc,
                     chunk_index |-> i,
                     payload_length |-> chunk_size % UINT16_MOD,
                     crc16 |-> espnow_crc16(payload, ESPNOW_MAX_PAYLOAD_SIZE)],
         payload |-> payload]

fragment_packet(data, len, seq, tc, i, old) ==
    LET offset == fragment_offset(i)
        chunk_size == fragment_chunk_size(len, i)
        payload == [k \in 0..(ESPNOW_MAX_PAYLOAD_SIZE - 1) |->
                       IF k < chunk_size THEN DataByte(data, offset + k)
                       ELSE old.payload[k]]
    IN  [header |-> [node_id |-> s_config.node_id,
                     packet_sequence |-> seq,
                     total_chunks |-> tc,
                     chunk_index |-> i,
                     payload_length |-> chunk_size % UINT16_MOD,
                     crc16 |-> espnow_crc16(payload, chunk_size)],
         payload |-> payload]

fragment_data(data, len, seq) ==
    LET tc == fragment_total_chunks(len)
    IN  IF tc > TX_SLOTS
        THEN [total_chunks |-> 0, packets |-> s_tx_packets]
        ELSE [total_chunks |-> tc,
              packets |-> [i \in (DOMAIN s_tx_packets) \cup (0..(tc - 1)) |->
                              IF i < tc
                              THEN fragment_packet(data, len, seq, tc, i,
                                                   TxSlot(s_tx_packets, i))
                              ELSE s_tx_packets[i]]]

(***************************************************************************)
(* Initial state: the statics of espnow_driver.c before any call.          *)
(***************************************************************************)
IdleTask ==
    [pc |-> "idle", call |-> 0, dest |-> NULL, data |-> NULL, len |-> 0,
     seq |-> 0, total_chunks |-> 0, i |-> 0, result |-> ESP_OK, err |-> ESP_OK,
     retry |-> 0, ret |-> NULL, exit |-> "none",
     h_chunks |-> <<>>, h_attempts |-> 0, h_ok |-> {}, h_failed |-> -1,
     h_cause |-> "none", h_delay |-> 0, h_slept |-> 0,
     h_cb |-> [cb |-> NULL, dest |-> NULL, success |-> FALSE, n |-> 0]]

ZeroConfig ==
    [node_id |-> 0, wifi_channel |-> 0, max_retries |-> 0,
     enable_encryption |-> FALSE, pmk |-> NULL, send_timeout_ms |-> 0]

ZeroCtx ==
    [state |-> ESPNOW_STATE_IDLE, current_chunk |-> 0, total_chunks |-> 0,
     retry_count |-> 0, is_sending |-> FALSE]

NoTx == [call |-> 0, task |-> NO_TASK, dest |-> NULL, size |-> 0,
         header |-> ZeroPacket.header, payload |-> <<>>]

\* h_sent: a send had returned ESP_OK, and none had begun since, when the
\* wait was called
IdleWaiter == [pc |-> "idle", ret |-> NULL, h_sent |-> FALSE]

\* tick flips with every call, so that two equal calls in a row are two steps
\* arg is the argument of the call, link what the link layer answered to it
NoCall == [op |-> "none", arg |-> NULL, link |-> NULL, ret |-> NULL, tick |-> 0]

NoReg == [recv |-> NULL, send |-> NULL]

\* rx: the datagram of the last run of espnow_recv_cb, <<>> before the first;
\* passed: that run got past the checks; cb, src, data, len, rssi: the last
\* invocation of the application's callback; runs and n flip with every run
\* and with every invocation; span: how many bytes from the data pointer on
\* that run read
NoRecv == [rx |-> <<>>, runs |-> 0, passed |-> FALSE, span |-> 0, cb |-> NULL,
           src |-> NULL, data |-> <<>>, len |-> 0, rssi |-> 0, n |-> 0]

\* the statics and histories that a specification without the receive path,
\* peers and wait_send_done starts with and leaves alone
ApiQuiet ==
    /\ s_recv_callback = NULL
    /\ s_last_rssi = 0
    /\ link_peers = {}
    /\ waiter = IdleWaiter
    /\ h_entry = [t \in Tasks |-> "none"]
    /\ link_depth = MaxPending
    /\ api = NoCall
    /\ h_reg = NoReg
    /\ h_recv = NoRecv

Init ==
    /\ s_driver_initialized = FALSE
    /\ s_config = ZeroConfig
    /\ s_send_ctx = ZeroCtx
    /\ s_send_done_callback = NULL
    /\ s_send_mutex = [handle |-> NULL_HANDLE, owner |-> NO_TASK]
    /\ s_send_event_group = [handle |-> NULL_HANDLE, bits |-> {}]
    /\ s_tx_packets = <<>>
    /\ s_current_dest_mac = NULL
    /\ sequence_num = 0
    /\ link_up = FALSE
    /\ link_pending = {}
    /\ task = [t \in Tasks |-> IdleTask]
    /\ calls = 0
    /\ inits = 0
    /\ tx_calls = <<>>
    /\ last_tx = NoTx
    /\ ApiQuiet

(***************************************************************************)
(* espnow_driver_init / espnow_driver_deinit                               *)
(***************************************************************************)
driverVars == <<s_driver_initialized, s_config, s_send_ctx, s_send_mutex,
                s_send_event_group, link_up>>
sendVars == <<s_tx_packets, s_current_dest_mac, sequence_num, task, calls,
              tx_calls, last_tx>>

\* an init that goes on when a handler registration fails
InitFailed_IgnoresRegistration(config, outcome) ==
    \/ outcome \in {"no_mem_mutex", "no_mem_event_group", "init_fail"}
    \/ outcome = "pmk_fail" /\ config[1].enable_encryption

\* lines 251-254, 257-261, 272-279, 282-294: the returns of an init that got
\* past the two checks; esp_now_set_pmk is called only with enable_encryption
InitFailed(config, outcome) ==
    \/ outcome \in {"no_mem_mutex", "no_mem_event_group",
                    "init_fail", "reg_send_fail", "reg_recv_fail"}
    \/ outcome = "pmk_fail" /\ config[1].enable_encryption

\* DriverInit without the check of line 234: a second init starts over
DriverInit_NoGuard(config, outcome) ==
    /\ UNCHANGED <<sendVars, s_send_done_callback, link_pending,
                   s_recv_callback, s_last_rssi, link_peers, waiter, h_entry, link_depth, h_reg,
                   h_recv>>
    /\ IF config = <<>>
       THEN UNCHANGED <<driverVars, inits>>
       ELSE
            /\ inits < MaxInits
            /\ inits' = inits + 1
            /\ s_config' = config[1]
            /\ s_send_mutex' =
                  [handle |-> IF outcome = "no_mem_mutex" THEN NULL_HANDLE ELSE inits',
                   owner |-> NO_TASK]
            /\ s_send_event_group' =
                  [handle |-> IF outcome = "no_mem_event_group" THEN NULL_HANDLE ELSE inits',
                   bits |-> {}]
            /\ LET failed == InitFailed(config, outcome)
               IN  /\ link_up' = ~failed
                   /\ s_driver_initialized' = ~failed
                   /\ s_send_ctx' = IF failed THEN s_send_ctx
                                    ELSE [s_send_ctx EXCEPT !.state = ESPNOW_STATE_IDLE]

\* outcome: which of the primitives called by init fails, if any
\* inits counts the calls that get past the two checks and allocate
DriverInit(config, outcome) ==
    /\ UNCHANGED <<sendVars, s_send_done_callback, link_pending,
                   s_recv_callback, s_last_rssi, link_peers, waiter, h_entry, link_depth, h_reg,
                   h_recv>>
    /\ IF s_driver_initialized
       THEN UNCHANGED <<driverVars, inits>>    \* ESP_ERR_INVALID_STATE
       ELSE IF config = <<>>
       THEN UNCHANGED <<driverVars, inits>>    \* ESP_ERR_INVALID_ARG
       ELSE
            /\ inits < MaxInits
            /\ inits' = inits + 1
            /\ s_config' = config[1]
            /\ s_send_mutex' =
                  [handle |-> IF outcome = "no_mem_mutex" THEN NULL_HANDLE ELSE inits',
                   owner |-> NO_TASK]
            /\ s_send_event_group' =
                  [handle |-> IF outcome = "no_mem_event_group" THEN NULL_HANDLE ELSE inits',
                   bits |-> {}]
            /\ LET failed == InitFailed(config, outcome)
               IN  /\ link_up' = ~failed
                   /\ s_driver_initialized' = ~failed
                   /\ s_send_ctx' = IF failed THEN s_send_ctx
                                    ELSE [s_send_ctx EXCEPT !.state = ESPNOW_STATE_IDLE]

\* DriverDeinit without lines 323-324: the callbacks outlive the driver
DriverDeinit_KeepsCallbacks ==
    /\ UNCHANGED <<sendVars, s_config, s_send_ctx, inits, s_last_rssi, waiter, h_entry, link_depth,
                   h_recv, s_recv_callback, s_send_done_callback>>
    /\ IF ~s_driver_initialized
       THEN UNCHANGED <<s_driver_initialized, s_send_mutex, s_send_event_group,
                        link_up, link_pending, link_peers, h_reg>>
       ELSE /\ link_up' = FALSE
            /\ link_pending' = {}
            /\ link_peers' = {}
            /\ s_send_mutex' = [handle |-> NULL_HANDLE, owner |-> NO_TASK]
            /\ s_send_event_group' = [handle |-> NULL_HANDLE, bits |-> {}]
            /\ s_driver_initialized' = FALSE
            /\ h_reg' = NoReg

\* lines 303-327; h_reg forgets the registrations when the driver is torn down
DriverDeinit ==
    /\ UNCHANGED <<sendVars, s_config, s_send_ctx, inits, s_last_rssi, waiter, h_entry, link_depth,
                   h_recv>>
    /\ IF ~s_driver_initialized
       THEN UNCHANGED <<s_driver_initialized, s_send_mutex, s_send_event_group,
                        link_up, link_pending, s_send_done_callback,
                        s_recv_callback, link_peers, h_reg>>
       ELSE /\ link_up' = FALSE
            /\ link_pending' = {}
            /\ link_peers' = {}
            /\ s_send_mutex' = [handle |-> NULL_HANDLE, owner |-> NO_TASK]
            /\ s_send_event_group' = [handle |-> NULL_HANDLE, bits |-> {}]
            /\ s_driver_initialized' = FALSE
            /\ s_recv_callback' = NULL
            /\ s_send_done_callback' = NULL
            /\ h_reg' = NoReg

espnow_driver_register_send_done_cb(cb) ==
    /\ s_send_done_callback' = cb
    /\ h_reg' = [h_reg EXCEPT !.send = cb]
    /\ UNCHANGED <<driverVars, sendVars, link_pending, inits, s_recv_callback,
                   s_last_rssi, link_peers, waiter, h_entry, link_depth, h_recv>>

(***************************************************************************)
(* espnow_driver_send, in steps.  A step boundary is placed wherever the   *)
(* calling task can block or another context can run in between.           *)
(***************************************************************************)
SetTask(t, r) == task' = [task EXCEPT ![t] = r]

\* the call's frame is gone; what the caller got back is kept
Return(t, code, how) ==
    [IdleTask EXCEPT !.call = task[t].call, !.ret = code, !.exit = how,
                     !.err = task[t].err]

\* SendEntry without the test of line 389: the call goes on to the mutex
SendEntry_NoInitCheck(t, dest, data, len) ==
    /\ task[t].pc = "idle"
    /\ calls < MaxCalls
    /\ calls' = calls + 1
    /\ LET me == [IdleTask EXCEPT !.call = calls + 1]
       IN  SetTask(t,
              IF dest = NULL \/ data = NULL \/ len = 0
              THEN [me EXCEPT !.ret = ESP_ERR_INVALID_ARG, !.exit = "bad_arg",
                              !.dest = dest, !.data = data, !.len = len]
              ELSE [me EXCEPT !.pc = "take", !.dest = dest, !.data = data,
                              !.len = len])
    /\ UNCHANGED <<driverVars, s_send_done_callback, s_tx_packets,
                   s_current_dest_mac, sequence_num, link_pending, inits, tx_calls, last_tx>>

\* SendEntry without the test of the length: an empty buffer goes on to the lock
SendEntry_NoLenCheck(t, dest, data, len) ==
    /\ task[t].pc = "idle"
    /\ calls < MaxCalls
    /\ calls' = calls + 1
    /\ LET me == [IdleTask EXCEPT !.call = calls + 1]
       IN  SetTask(t,
              IF ~s_driver_initialized
              THEN [me EXCEPT !.ret = ESP_ERR_INVALID_STATE, !.exit = "not_init"]
              ELSE IF dest = NULL \/ data = NULL
              THEN [me EXCEPT !.ret = ESP_ERR_INVALID_ARG, !.exit = "bad_arg",
                              !.dest = dest, !.data = data, !.len = len]
              ELSE [me EXCEPT !.pc = "take", !.dest = dest, !.data = data,
                              !.len = len])
    /\ UNCHANGED <<driverVars, s_send_done_callback, s_tx_packets,
                   s_current_dest_mac, sequence_num, link_pending, inits, tx_calls, last_tx>>

\* lines 388-395: the checks of espnow_driver_send before the mutex; the frame
\* of a call refused for its arguments keeps the arguments it was called with
SendEntry(t, dest, data, len) ==
    /\ task[t].pc = "idle"
    /\ calls < MaxCalls
    /\ calls' = calls + 1
    /\ LET me == [IdleTask EXCEPT !.call = calls + 1]
       IN  SetTask(t,
              IF ~s_driver_initialized
              THEN [me EXCEPT !.ret = ESP_ERR_INVALID_STATE, !.exit = "not_init"]
              ELSE IF dest = NULL \/ data = NULL \/ len = 0
              THEN [me EXCEPT !.ret = ESP_ERR_INVALID_ARG, !.exit = "bad_arg",
                              !.dest = dest, !.data = data, !.len = len]
              ELSE [me EXCEPT !.pc = "take", !.dest = dest, !.data = data,
                              !.len = len])
    /\ UNCHANGED <<driverVars, s_send_done_callback, s_tx_packets,
                   s_current_dest_mac, sequence_num, link_pending, inits, tx_calls, last_tx>>

\* a give that leaves the mutex with its holder
Given_StillHeld(mutex) == mutex

\* lines 414, 451: xSemaphoreGive(s_send_mutex) by the holder
Given(mutex) == [mutex EXCEPT !.owner = NO_TASK]

\* SendTake with a take that does not exclude: the mutex is taken though held
SendTake_IgnoresOwner(t) ==
    /\ task[t].pc = "take"
    /\ s_send_mutex.handle # NULL_HANDLE
    /\ s_send_mutex' = [s_send_mutex EXCEPT !.owner = t]
    /\ SetTask(t, [task[t] EXCEPT !.pc = "locked"])
    /\ UNCHANGED <<s_driver_initialized, s_config, s_send_ctx, s_send_event_group,
                   link_up, s_send_done_callback, s_tx_packets,
                   s_current_dest_mac, sequence_num, link_pending, calls, inits,
                   tx_calls, last_tx>>

\* line 398: xSemaphoreTake succeeds
SendTake(t) ==
    /\ task[t].pc = "take"
    /\ s_send_mutex.handle # NULL_HANDLE
    /\ s_send_mutex.owner = NO_TASK
    /\ s_send_mutex' = [s_send_mutex EXCEPT !.owner = t]
    /\ SetTask(t, [task[t] EXCEPT !.pc = "locked"])
    /\ UNCHANGED <<s_driver_initialized, s_config, s_send_ctx, s_send_event_group,
                   link_up, s_send_done_callback, s_tx_packets,
                   s_current_dest_mac, sequence_num, link_pending, calls, inits, tx_calls, last_tx>>

\* SendTakeTimeout that runs the end-of-send clean-up on its way out
SendTakeTimeout_ResetsContext(t) ==
    /\ task[t].pc = "take"
    /\ s_send_mutex.handle # NULL_HANDLE
    /\ s_send_mutex.owner # NO_TASK
    /\ s_send_ctx' = [s_send_ctx EXCEPT !.is_sending = FALSE,
                                        !.state = ESPNOW_STATE_FAILED]
    /\ SetTask(t, Return(t, ESP_ERR_TIMEOUT, "busy"))
    /\ UNCHANGED <<s_driver_initialized, s_config, s_send_mutex,
                   s_send_event_group, link_up, s_send_done_callback,
                   s_tx_packets, s_current_dest_mac, sequence_num, link_pending,
                   calls, inits, tx_calls, last_tx>>

\* lines 398-401: the mutex stayed taken for the whole 5000 ms wait
SendTakeTimeout(t) ==
    /\ task[t].pc = "take"
    /\ s_send_mutex.handle # NULL_HANDLE
    /\ s_send_mutex.owner # NO_TASK
    /\ SetTask(t, Return(t, ESP_ERR_TIMEOUT, "busy"))
    /\ UNCHANGED <<driverVars, s_send_done_callback, s_tx_packets,
                   s_current_dest_mac, sequence_num, link_pending, calls, inits, tx_calls, last_tx>>

\* SendFragment with a counter wider than 16 bits: 65535 is followed by 65536
SendFragment_NoWrap(t) ==
    /\ task[t].pc = "locked"
    /\ LET seq == sequence_num + 1
           frag == fragment_data(task[t].data, task[t].len, seq)
       IN  /\ sequence_num' = seq
           /\ s_tx_packets' = frag.packets
           /\ IF frag.total_chunks = 0
              THEN /\ s_send_mutex' = Given(s_send_mutex)
                   /\ SetTask(t, Return(t, ESP_ERR_INVALID_SIZE, "too_large"))
              ELSE /\ SetTask(t, [task[t] EXCEPT !.pc = "fragmented", !.seq = seq,
                                     !.total_chunks = frag.total_chunks])
                   /\ UNCHANGED s_send_mutex
    /\ UNCHANGED <<s_driver_initialized, s_config, s_send_ctx, s_send_event_group,
                   link_up, s_current_dest_mac, s_send_done_callback,
                   link_pending, calls, inits, tx_calls, last_tx>>

\* lines 407-416: sequence number, fragment_data, the check of its result.
\* The send context is read by contexts that do not hold the mutex, so the
\* writes to it that follow are steps of their own.
SendFragment(t) ==
    /\ task[t].pc = "locked"
    /\ LET seq == (sequence_num + 1) % UINT16_MOD
           frag == fragment_data(task[t].data, task[t].len, seq)
       IN  /\ sequence_num' = seq
           /\ s_tx_packets' = frag.packets
           /\ IF frag.total_chunks = 0
              THEN /\ s_send_mutex' = Given(s_send_mutex)
                   /\ SetTask(t, Return(t, ESP_ERR_INVALID_SIZE, "too_large"))
              ELSE /\ SetTask(t, [task[t] EXCEPT !.pc = "fragmented", !.seq = seq,
                                     !.total_chunks = frag.total_chunks])
                   /\ UNCHANGED s_send_mutex
    /\ UNCHANGED <<s_driver_initialized, s_config, s_send_ctx, s_send_event_group,
                   link_up, s_current_dest_mac, s_send_done_callback,
                   link_pending, calls, inits, tx_calls, last_tx>>

\* lines 418-423: send context set-up, current destination, result = ESP_OK
SendBegin(t) ==
    /\ task[t].pc = "fragmented"
    /\ s_send_ctx' = [s_send_ctx EXCEPT !.total_chunks = task[t].total_chunks,
                                        !.is_sending = TRUE]
    /\ s_current_dest_mac' = task[t].dest
    /\ SetTask(t, [task[t] EXCEPT !.pc = "loop", !.result = ESP_OK, !.i = 0])
    /\ UNCHANGED <<s_driver_initialized, s_config, s_send_mutex,
                   s_send_event_group, link_up, s_send_done_callback,
                   s_tx_packets, sequence_num, link_pending, calls, inits,
                   tx_calls, last_tx>>

\* lines 424-430: the for-loop test; entering send_packet_with_retry (177-180)
SendLoop(t) ==
    /\ task[t].pc = "loop"
    /\ IF task[t].i < task[t].total_chunks
       THEN /\ s_send_ctx' = [s_send_ctx EXCEPT !.current_chunk = task[t].i]
            /\ SetTask(t, [task[t] EXCEPT !.pc = "attempt", !.retry = 0,
                              !.h_attempts = 0, !.h_cause = "none",
                              !.h_delay = 0, !.h_slept = 0])
       ELSE /\ SetTask(t, [task[t] EXCEPT !.pc = "finish"])
            /\ UNCHANGED s_send_ctx
    /\ UNCHANGED <<s_driver_initialized, s_config, s_send_mutex,
                   s_send_event_group, link_up, s_send_done_callback,
                   s_tx_packets, s_current_dest_mac, sequence_num, link_pending,
                   calls, inits, tx_calls, last_tx>>

(***************************************************************************)
(* send_packet_with_retry                                                  *)
(***************************************************************************)
PACKET_HEADER_SIZE == 9

\* the largest shift count for which 10 * (1 << retry) fits the 32-bit int it
\* is computed in: 10 * 2^27 < 2^31 <= 10 * 2^28
BACKOFF_MAX_SHIFT == 27

\* 10 * (1 << shift) in 32-bit two's complement arithmetic, 28 <= shift <= 31
WrappedBackoff(shift) ==
    CASE shift = 28 -> 0 - 1610612736
      [] shift = 29 -> 1073741824
      [] shift = 30 -> (0 - 2147483647) - 1
      [] OTHER -> 0

\* lines 195, 215, 221: the argument 10 * (1 << retry) of pdMS_TO_TICKS, an int
\* expression.  Up to BACKOFF_MAX_SHIFT it has one value.  Beyond, the
\* multiplication overflows and, from retry = 32, the shift count reaches the
\* width of int: the behaviour is undefined, and the value is the
\* two's-complement result with the shift count taken modulo 32, or 0.
BackoffDelays(retry) ==
    IF retry <= BACKOFF_MAX_SHIFT THEN {10 * 2^retry}
    ELSE {IF retry % 32 <= BACKOFF_MAX_SHIFT THEN 10 * 2^(retry % 32)
          ELSE WrappedBackoff(retry % 32),
          0}

\* retry++ and vTaskDelay after a failed attempt, in the frame r of the task
Backoff(r, cause, delay) ==
    [r EXCEPT !.pc = "attempt",
              !.retry = (@ + 1) % UINT8_MOD,
              !.h_cause = cause,
              !.h_delay = delay,
              !.h_slept = Min(@ + 1, MaxAttemptsLog)]

\* a sender that waits for the completion signal of a rejected transmit too
SubmitError_ThenWaits(r, delay) == [r EXCEPT !.pc = "wait"]

\* lines 192-197: esp_now_send returned an error
SubmitError(r, delay) == Backoff(r, "submit_error", delay)

\* Frame that hands the whole espnow_packet_t to the link layer
Frame_FullStruct(t, packet) ==
    [call |-> task[t].call, task |-> t, dest |-> task[t].dest,
     size |-> PACKET_HEADER_SIZE + ESPNOW_MAX_PAYLOAD_SIZE,
     header |-> packet.header,
     payload |-> packet.payload]

\* lines 180, 191: packet_size = sizeof(header) + header.payload_length, and
\* the bytes esp_now_send is given: the first packet_size bytes of the packet
Frame(t, packet) ==
    [call |-> task[t].call, task |-> t, dest |-> task[t].dest,
     size |-> PACKET_HEADER_SIZE + packet.header.payload_length,
     header |-> packet.header,
     payload |-> [k \in 0..(packet.header.payload_length - 1) |-> packet.payload[k]]]

LinkCanAccept == link_up /\ Cardinality(link_pending) < link_depth

\* lines 182-197: loop test true, event bits cleared, esp_now_send called;
\* accepted says whether esp_now_send returned ESP_OK
RetryAttempt(t, accepted) ==
    /\ task[t].pc = "attempt"
    /\ task[t].retry <= s_config.max_retries
    /\ accepted => LinkCanAccept
    /\ s_send_event_group.handle # NULL_HANDLE
    /\ s_send_event_group' = [s_send_event_group EXCEPT !.bits = {}]
    /\ s_send_ctx' = [s_send_ctx EXCEPT !.state = ESPNOW_STATE_SENDING,
                                        !.retry_count = task[t].retry]
    /\ last_tx' = Frame(t, TxSlot(s_tx_packets, task[t].i))
    /\ tx_calls' = AppendRun(tx_calls, task[t].call)
    /\ link_pending' =
          IF accepted
          THEN link_pending \cup {[call |-> task[t].call, chunk |-> task[t].i,
                                   retry |-> task[t].retry]}
          ELSE link_pending
    /\ LET sent == [task[t] EXCEPT
                      !.h_chunks = AppendRun(@, task[t].i),
                      !.h_attempts = Min(@ + 1, MaxAttemptsLog)]
       IN  IF accepted
           THEN SetTask(t, [sent EXCEPT !.pc = "wait"])
           ELSE \E delay \in BackoffDelays((task[t].retry + 1) % UINT8_MOD) :
                   SetTask(t, SubmitError(sent, delay))
    /\ UNCHANGED <<s_driver_initialized, s_config, s_send_mutex, link_up,
                   s_send_done_callback, s_tx_packets, s_current_dest_mac,
                   sequence_num, calls, inits>>

\* WaitDone that takes every completion for a failed one
WaitDone_IgnoresSuccessBit(t) ==
    /\ task[t].pc = "wait"
    /\ s_send_event_group.handle # NULL_HANDLE
    /\ ESPNOW_SEND_DONE_BIT \in s_send_event_group.bits
    /\ s_send_event_group' =
          [s_send_event_group EXCEPT !.bits = @ \ {ESPNOW_SEND_DONE_BIT}]
    /\ \E delay \in BackoffDelays((task[t].retry + 1) % UINT8_MOD) :
          SetTask(t, Backoff(task[t], "fail_completion", delay))
    /\ UNCHANGED <<s_driver_initialized, s_config, s_send_ctx, s_send_mutex,
                   link_up, s_send_done_callback, s_tx_packets,
                   s_current_dest_mac, sequence_num, link_pending, calls, inits,
                   tx_calls, last_tx>>

\* lines 200-216: xEventGroupWaitBits returns with the done bit (cleared on exit)
WaitDone(t) ==
    /\ task[t].pc = "wait"
    /\ s_send_event_group.handle # NULL_HANDLE
    /\ ESPNOW_SEND_DONE_BIT \in s_send_event_group.bits
    /\ s_send_event_group' =
          [s_send_event_group EXCEPT !.bits = @ \ {ESPNOW_SEND_DONE_BIT}]
    /\ IF ESPNOW_SEND_SUCCESS_BIT \in s_send_event_group.bits
       THEN SetTask(t, [task[t] EXCEPT !.pc = "chunk_done", !.err = ESP_OK,
                           !.h_ok = @ \cup {task[t].i}])
       ELSE \E delay \in BackoffDelays((task[t].retry + 1) % UINT8_MOD) :
               SetTask(t, Backoff(task[t], "fail_completion", delay))
    /\ UNCHANGED <<s_driver_initialized, s_config, s_send_ctx, s_send_mutex,
                   link_up, s_send_done_callback, s_tx_packets,
                   s_current_dest_mac, sequence_num, link_pending, calls, inits, tx_calls, last_tx>>

\* lines 217-222: no done bit within send_timeout_ms
WaitTimeout(t) ==
    /\ task[t].pc = "wait"
    /\ s_send_event_group.handle # NULL_HANDLE
    /\ ESPNOW_SEND_DONE_BIT \notin s_send_event_group.bits
    /\ \E delay \in BackoffDelays((task[t].retry + 1) % UINT8_MOD) :
          SetTask(t, Backoff(task[t], "timeout", delay))
    /\ UNCHANGED <<driverVars, s_send_done_callback, s_tx_packets,
                   s_current_dest_mac, sequence_num, link_pending, calls, inits, tx_calls, last_tx>>

\* lines 182, 225-226: loop test false
RetryExhausted(t) ==
    /\ task[t].pc = "attempt"
    /\ task[t].retry > s_config.max_retries
    /\ SetTask(t, [task[t] EXCEPT !.pc = "chunk_done", !.err = ESP_ERR_TIMEOUT,
                      !.h_failed = task[t].i])
    /\ UNCHANGED <<driverVars, s_send_done_callback, s_tx_packets,
                   s_current_dest_mac, sequence_num, link_pending, calls, inits, tx_calls, last_tx>>

\* ChunkDone without the break: the loop goes on after a failed chunk
ChunkDone_NoBreak(t) ==
    /\ task[t].pc = "chunk_done"
    /\ SetTask(t, [task[t] EXCEPT
          !.pc = "loop", !.i = @ + 1,
          !.result = IF task[t].err # ESP_OK THEN task[t].err ELSE @])
    /\ UNCHANGED <<driverVars, s_send_done_callback, s_tx_packets,
                   s_current_dest_mac, sequence_num, link_pending, calls, inits,
                   tx_calls, last_tx>>

\* ChunkDone that reports a failed chunk as ESP_FAIL instead of its own error
ChunkDone_GenericError(t) ==
    /\ task[t].pc = "chunk_done"
    /\ IF task[t].err # ESP_OK
       THEN SetTask(t, [task[t] EXCEPT !.pc = "finish", !.result = ESP_FAIL])
       ELSE SetTask(t, [task[t] EXCEPT !.pc = "loop", !.i = @ + 1])
    /\ UNCHANGED <<driverVars, s_send_done_callback, s_tx_packets,
                   s_current_dest_mac, sequence_num, link_pending, calls, inits,
                   tx_calls, last_tx>>

\* lines 430-441: the result of one chunk; break on the first failure
ChunkDone(t) ==
    /\ task[t].pc = "chunk_done"
    /\ IF task[t].err # ESP_OK
       THEN SetTask(t, [task[t] EXCEPT !.pc = "finish", !.result = task[t].err])
       ELSE SetTask(t, [task[t] EXCEPT !.pc = "loop", !.i = @ + 1])
    /\ UNCHANGED <<driverVars, s_send_done_callback, s_tx_packets,
                   s_current_dest_mac, sequence_num, link_pending, calls, inits, tx_calls, last_tx>>

\* line 443
SendFinish(t) ==
    /\ task[t].pc = "finish"
    /\ s_send_ctx' = [s_send_ctx EXCEPT !.is_sending = FALSE]
    /\ SetTask(t, [task[t] EXCEPT !.pc = "finish_state"])
    /\ UNCHANGED <<s_driver_initialized, s_config, s_send_mutex,
                   s_send_event_group, link_up, s_send_done_callback,
                   s_tx_packets, s_current_dest_mac, sequence_num, link_pending,
                   calls, inits, tx_calls, last_tx>>

\* a send that leaves the state of its last completion after a success
FinalState_KeepsSuccess(result) ==
    IF result = ESP_OK THEN ESPNOW_STATE_SUCCESS ELSE ESPNOW_STATE_FAILED

\* line 444: (result == ESP_OK) ? ESPNOW_STATE_IDLE : ESPNOW_STATE_FAILED
FinalState(result) ==
    IF result = ESP_OK THEN ESPNOW_STATE_IDLE ELSE ESPNOW_STATE_FAILED

\* line 444
SendFinishState(t) ==
    /\ task[t].pc = "finish_state"
    /\ s_send_ctx' = [s_send_ctx EXCEPT !.state = FinalState(task[t].result)]
    /\ SetTask(t, [task[t] EXCEPT !.pc = "notify"])
    /\ UNCHANGED <<s_driver_initialized, s_config, s_send_mutex,
                   s_send_event_group, link_up, s_send_done_callback,
                   s_tx_packets, s_current_dest_mac, sequence_num, link_pending,
                   calls, inits, tx_calls, last_tx>>

\* SendNotify that reports success to the callback whatever the result was
SendNotify_AlwaysSuccess(t) ==
    /\ task[t].pc = "notify"
    /\ SetTask(t, [task[t] EXCEPT
          !.pc = "give",
          !.h_cb = IF s_send_done_callback # NULL
                   THEN [cb |-> s_send_done_callback, dest |-> task[t].dest,
                         success |-> TRUE, n |-> @.n + 1]
                   ELSE @])
    /\ UNCHANGED <<driverVars, s_send_done_callback, s_tx_packets,
                   s_current_dest_mac, sequence_num, link_pending, calls, inits, tx_calls, last_tx>>

\* lines 447-449: the user's send-done callback, if one is registered
SendNotify(t) ==
    /\ task[t].pc = "notify"
    /\ SetTask(t, [task[t] EXCEPT
          !.pc = "give",
          !.h_cb = IF s_send_done_callback # NULL
                   THEN [cb |-> s_send_done_callback, dest |-> task[t].dest,
                         success |-> (task[t].result = ESP_OK), n |-> @.n + 1]
                   ELSE @])
    /\ UNCHANGED <<driverVars, s_send_done_callback, s_tx_packets,
                   s_current_dest_mac, sequence_num, link_pending, calls, inits, tx_calls, last_tx>>

\* lines 451-457
SendGive(t) ==
    /\ task[t].pc = "give"
    /\ s_send_mutex.handle # NULL_HANDLE
    /\ s_send_mutex' = Given(s_send_mutex)
    /\ SetTask(t, Return(t, task[t].result, "sent"))
    /\ UNCHANGED <<s_driver_initialized, s_config, s_send_ctx, s_send_event_group,
                   link_up, s_send_done_callback, s_tx_packets,
                   s_current_dest_mac, sequence_num, link_pending, calls, inits, tx_calls, last_tx>>

(***************************************************************************)
(* The link layer: the completion of an accepted transmit is delivered to  *)
(* espnow_send_cb at any later time, or never.                             *)
(***************************************************************************)
espnow_send_cb(status) ==
    /\ s_send_event_group.handle # NULL_HANDLE
    /\ IF status = ESP_NOW_SEND_SUCCESS
       THEN /\ s_send_ctx' = [s_send_ctx EXCEPT !.state = ESPNOW_STATE_SUCCESS]
            /\ s_send_event_group' = [s_send_event_group EXCEPT
                  !.bits = @ \cup {ESPNOW_SEND_DONE_BIT, ESPNOW_SEND_SUCCESS_BIT}]
       ELSE /\ s_send_ctx' = [s_send_ctx EXCEPT !.state = ESPNOW_STATE_FAILED]
            /\ s_send_event_group' = [s_send_event_group EXCEPT
                  !.bits = @ \cup {ESPNOW_SEND_DONE_BIT}]

LinkComplete(p, status) ==
    /\ p \in link_pending
    /\ link_pending' = link_pending \ {p}
    /\ espnow_send_cb(status)
    /\ UNCHANGED <<s_driver_initialized, s_config, s_send_mutex, link_up,
                   s_send_done_callback, sendVars, inits>>

LinkDrop(p) ==
    /\ p \in link_pending
    /\ link_pending' = link_pending \ {p}
    /\ UNCHANGED <<driverVars, s_send_done_callback, sendVars, inits>>

(***************************************************************************)
(* The driver specification.  driver_deinit is called only while no send   *)
(* call is in progress, which is what the driver requires of its callers.  *)
(***************************************************************************)
NoSendInProgress == \A t \in Tasks : task[t].pc = "idle"

SenderStep(t) ==
  /\ UNCHANGED apiVars
  /\
    \/ \E a \in SendArgs : SendEntry(t, a.dest, a.data, a.len)
    \/ SendTake(t)
    \/ SendTakeTimeout(t)
    \/ SendFragment(t)
    \/ SendBegin(t)
    \/ SendLoop(t)
    \/ \E accepted \in BOOLEAN : RetryAttempt(t, accepted)
    \/ WaitDone(t)
    \/ WaitTimeout(t)
    \/ RetryExhausted(t)
    \/ ChunkDone(t)
    \/ SendFinish(t)
    \/ SendFinishState(t)
    \/ SendNotify(t)
    \/ SendGive(t)

LinkStep ==
  /\ UNCHANGED apiVars
  /\
    \/ \E p \in link_pending, status \in {ESP_NOW_SEND_SUCCESS, ESP_NOW_SEND_FAIL} :
          LinkComplete(p, status)
    \/ \E p \in link_pending : LinkDrop(p)

Next ==
    \/ \E config \in ConfigPtrs :
          \E outcome \in (IF s_driver_initialized \/ config = <<>>
                          THEN {"ok"} ELSE InitOutcomes) :
             DriverInit(config, outcome) /\ UNCHANGED api
    \/ NoSendInProgress /\ DriverDeinit /\ UNCHANGED api
    \/ \E cb \in Callbacks :
          espnow_driver_register_send_done_cb(cb) /\ UNCHANGED api
    \/ \E t \in Tasks : SenderStep(t)
    \/ LinkStep

Spec == Init /\ [][Next]_vars

(***************************************************************************)
(* The fragmentation specification: a caller holds the send mutex of an    *)
(* initialized driver and is about to fragment a buffer of any length in   *)
(* FragLens; the only step is lines 407-416 of espnow_driver_send.         *)
(***************************************************************************)
\* every length up to MaxFragLen, the lengths around every multiple of the
\* chunk size up to one chunk more than the buffer holds, and lengths whose
\* chunk count is 256, 257, 288 and 289
FragLens ==
    (1..MaxFragLen)
    \cup {ESPNOW_MAX_PAYLOAD_SIZE * n + d : n \in 1..(TX_SLOTS + 1), d \in {-1, 0, 1}}
    \cup {51200, 51201, 57600, 57601}

InstalledConfig ==
    [node_id |-> 1, wifi_channel |-> 1, max_retries |-> 0,
     enable_encryption |-> FALSE, pmk |-> "pmk", send_timeout_ms |-> 100]

InitFrag ==
    /\ s_driver_initialized = TRUE
    /\ s_config = InstalledConfig
    /\ s_send_ctx = ZeroCtx
    /\ s_send_done_callback = NULL
    /\ s_send_mutex = [handle |-> 1, owner |-> "task_a"]
    /\ s_send_event_group = [handle |-> 1, bits |-> {}]
    /\ s_tx_packets = <<>>
    /\ s_current_dest_mac = NULL
    /\ sequence_num = 0
    /\ link_up = TRUE
    /\ link_pending = {}
    /\ \E len \in FragLens :
          task = [t \in Tasks |->
                     IF t = "task_a"
                     THEN [IdleTask EXCEPT !.pc = "locked", !.call = 1,
                                           !.dest = PEER_MAC,
                                           !.data = "sensor_data", !.len = len]
                     ELSE IdleTask]
    /\ calls = 1
    /\ inits = 1
    /\ tx_calls = <<>>
    /\ last_tx = NoTx
    /\ ApiQuiet

NextFrag == \E t \in Tasks : SendFragment(t) /\ UNCHANGED apiVars

SpecFrag == InitFrag /\ [][NextFrag]_vars

(***************************************************************************)
(* Properties of the driver specification.                                 *)
(***************************************************************************)
InCritical(t) ==
    task[t].pc \in {"locked", "fragmented", "loop", "attempt", "wait",
                    "chunk_done", "finish", "finish_state", "notify", "give"}

Transmitting(t) == task[t].pc \in {"loop", "attempt", "wait", "chunk_done"}

\* C1: at most one send call is between taking and giving the send mutex, it
\* is the owner of the mutex, the runs of transmits of two calls are never
\* split by each other, and the fragment buffer, the send context's chunk
\* count and the current destination are those the call in flight wrote.
C1_OneSendInFlight ==
    /\ Cardinality({t \in Tasks : InCritical(t)}) <= 1
    /\ \A t \in Tasks : InCritical(t) => s_send_mutex.owner = t
    /\ \A j, k \in DOMAIN tx_calls : j # k => tx_calls[j] # tx_calls[k]
    /\ \A t \in Tasks : Transmitting(t) =>
          /\ s_send_ctx.total_chunks = task[t].total_chunks
          /\ s_send_ctx.is_sending
          /\ s_current_dest_mac = task[t].dest
          /\ \A i \in 0..(task[t].total_chunks - 1) :
                TxSlot(s_tx_packets, i).header.packet_sequence = task[t].seq

\* call 1 was started first, call 2 overtook it at the mutex and transmitted,
\* and call 1 is transmitting now
C1_Witness ==
    /\ tx_calls = <<2, 1>>
    /\ \E t \in Tasks : task[t].pc = "wait" /\ task[t].call = 1

\* C2: a call that leaves the mutex wait without the mutex returns
\* ESP_ERR_TIMEOUT (the driver's code for Busy) and the step changes nothing
\* but the caller's own frame: not the send context, the fragment buffer, the
\* sequence counter, the current destination, the event bits, the mutex, the
\* other tasks, and it hands nothing to the link layer.
C2_BusyLeavesSendUntouched ==
    [][\A t \in Tasks :
          (task[t].pc = "take" /\ task'[t].pc # "take" /\ s_send_mutex'.owner # t)
          => /\ task'[t].pc = "idle"
             /\ task'[t].ret = ESP_ERR_TIMEOUT
             /\ s_send_mutex.owner \in Tasks \ {t}
             /\ UNCHANGED <<s_send_ctx, s_tx_packets, sequence_num,
                            s_current_dest_mac, s_send_event_group, s_send_mutex,
                            link_pending, tx_calls, last_tx>>
             /\ \A u \in Tasks \ {t} : task'[u] = task[u]]_vars

C2_Witness ==
    \E t, u \in Tasks :
       /\ task[t].exit = "busy"
       /\ task[t].ret = ESP_ERR_TIMEOUT
       /\ task[u].pc = "wait"
       /\ s_send_ctx.is_sending
       /\ s_send_ctx.current_chunk = 1

\* C3: the chunks a call has handed to the link layer are 0, 1, ..., k in this
\* order (retries repeat a chunk, nothing is skipped or revisited), and a chunk
\* after the first is handed over only once send_packet_with_retry has
\* returned ESP_OK for the chunk before it.
C3_ChunksInOrder ==
    \A t \in Tasks :
       /\ \A j \in 1..Len(task[t].h_chunks) : task[t].h_chunks[j] = j - 1
       /\ \A j \in 2..Len(task[t].h_chunks) : (j - 2) \in task[t].h_ok

C3_Witness ==
    \E t \in Tasks :
       /\ task[t].h_chunks = <<0, 1, 2>>
       /\ task[t].retry = 1
       /\ task[t].pc = "wait"

\* C6: once send_packet_with_retry has failed for chunk i, no chunk after i is
\* handed to the link layer, the call goes straight to its end, and what it
\* returns is the error of that chunk.
C6_StopAtFirstFailure ==
    \A t \in Tasks :
       /\ task[t].h_failed # -1 =>
             /\ \A j \in 1..Len(task[t].h_chunks) :
                   task[t].h_chunks[j] <= task[t].h_failed
             /\ task[t].err # ESP_OK
             /\ task[t].pc \in {"chunk_done", "finish", "finish_state",
                                "notify", "give"}
             /\ task[t].pc # "chunk_done" => task[t].result = task[t].err
       /\ task[t].exit = "sent" => task[t].ret = task[t].err

C6_Witness ==
    \E t \in Tasks :
       /\ task[t].h_failed = 1
       /\ task[t].total_chunks = 3
       /\ task[t].pc = "give"
       /\ task[t].result = ESP_ERR_TIMEOUT

MAX_SEND_LEN == TX_SLOTS * ESPNOW_MAX_PAYLOAD_SIZE

\* C7: a call with more than 6400 bytes hands no frame to the link layer and
\* does not end on the path that returns the result of the transmit loop (it
\* returns ESP_ERR_INVALID_SIZE from the fragmentation check).
C7_TooLargeSubmitsNothing ==
    \A t \in Tasks :
       task[t].len > MAX_SEND_LEN =>
          /\ last_tx.call # task[t].call
          /\ task[t].pc # "give"

\* C9: the frame last handed to esp_now_send by the call in flight has the
\* configured node id, the call's sequence number and chunk count, the index of
\* the chunk being sent, a checksum over exactly its payload_length payload
\* bytes, chunk_index < total_chunks <= 32 and 1 <= payload_length <= 200.
C9_FrameHeader ==
    \A t \in Tasks :
       (Transmitting(t) /\ last_tx.call = task[t].call) =>
          LET h == last_tx.header
          IN  /\ h.node_id = s_config.node_id
              /\ h.packet_sequence = task[t].seq
              /\ h.total_chunks = task[t].total_chunks
              /\ (task[t].pc # "loop" /\ task[t].h_attempts > 0)
                    => h.chunk_index = task[t].i
              /\ h.crc16 = espnow_crc16(last_tx.payload, h.payload_length)
              /\ DOMAIN last_tx.payload = 0..(h.payload_length - 1)
              /\ h.chunk_index < h.total_chunks
              /\ h.total_chunks <= TX_SLOTS
              /\ 1 <= h.payload_length
              /\ h.payload_length <= ESPNOW_MAX_PAYLOAD_SIZE
              /\ last_tx.dest = task[t].dest

C9_Witness ==
    /\ last_tx.header.chunk_index = 2
    /\ last_tx.header.total_chunks = 3
    /\ last_tx.header.payload_length = 1
    /\ last_tx.header.node_id = 2
    /\ last_tx.header.packet_sequence = 2

(***************************************************************************)
(* Properties of the fragmentation specification.                          *)
(***************************************************************************)
\* the least n with n chunks of ESPNOW_MAX_PAYLOAD_SIZE bytes holding len bytes
CeilChunks(len) ==
    CHOOSE n \in 0..len :
       /\ ESPNOW_MAX_PAYLOAD_SIZE * n >= len
       /\ ESPNOW_MAX_PAYLOAD_SIZE * (n - 1) < len

\* C8: for a length in 1..6400 the fragmentation step succeeds with
\* ceil(len / 200) chunks, every chunk but the last of 200 bytes and the last
\* of the remaining len - 200 * (chunks - 1) bytes, each stamped with the chunk
\* count and its index; for 6401 bytes it fails with ESP_ERR_INVALID_SIZE.
C8_ChunkCountAndSizes ==
    [][\A t \in Tasks :
          (task[t].pc = "locked" /\ task'[t].pc # "locked") =>
             /\ task[t].len \in 1..MAX_SEND_LEN =>
                   LET n == CeilChunks(task[t].len)
                   IN  /\ task'[t].pc = "fragmented"
                       /\ task'[t].total_chunks = n
                       /\ \A i \in 0..(n - 1) :
                             LET h == s_tx_packets'[i].header
                             IN  /\ h.total_chunks = n
                                 /\ h.chunk_index = i
                                 /\ h.payload_length =
                                       IF i < n - 1 THEN ESPNOW_MAX_PAYLOAD_SIZE
                                       ELSE task[t].len - ESPNOW_MAX_PAYLOAD_SIZE * (n - 1)
             /\ task[t].len = MAX_SEND_LEN + 1 =>
                   /\ task'[t].pc = "idle"
                   /\ task'[t].ret = ESP_ERR_INVALID_SIZE]_vars

C8_Witness ==
    \E t \in Tasks :
       /\ task[t].pc = "fragmented"
       /\ task[t].len = 450
       /\ task[t].total_chunks = 3
       /\ s_tx_packets[0].header.payload_length = 200
       /\ s_tx_packets[1].header.payload_length = 200
       /\ s_tx_packets[2].header.payload_length = 50

\* the payload of a fragment: the first payload_length bytes of its array
PayloadSeq(packet) ==
    [k \in 1..packet.header.payload_length |-> packet.payload[k - 1]]

\* the fragment that carries chunk_index c among the first n slots
ChunkAt(packets, n, c) ==
    packets[CHOOSE i \in 0..(n - 1) : packets[i].header.chunk_index = c]

\* the payloads of chunks lo..hi-1 one after the other
RECURSIVE Reassemble(_, _, _, _)
Reassemble(packets, n, lo, hi) ==
    IF hi <= lo THEN <<>>
    ELSE IF hi = lo + 1 THEN PayloadSeq(ChunkAt(packets, n, lo))
    ELSE LET mid == (lo + hi) \div 2
         IN  Reassemble(packets, n, lo, mid) \o Reassemble(packets, n, mid, hi)

Original(data, len) == [k \in 1..len |-> DataByte(data, k - 1)]

\* C10: for a buffer of 1..6400 bytes the payloads of the fragments, taken in
\* chunk_index order, are the bytes of the buffer in the order of the buffer.
C10_RoundTrip ==
    \A t \in Tasks :
       (task[t].pc = "fragmented" /\ task[t].len \in 1..MAX_SEND_LEN) =>
          Reassemble(s_tx_packets, task[t].total_chunks, 0, task[t].total_chunks)
             = Original(task[t].data, task[t].len)

C10_Witness ==
    \E t \in Tasks :
       /\ task[t].pc = "fragmented"
       /\ task[t].len = 6399
       /\ Len(Reassemble(s_tx_packets, 32, 0, 32)) = 6399
       /\ s_tx_packets[31].payload[198] = DataByte(task[t].data, 6398)

(***************************************************************************)
(* The retry specification: one caller on an initialized driver whose link *)
(* never reports a successful completion: esp_now_send is rejected, or the *)
(* completion reports failure, or no completion arrives; the link has     *)
(* settled or abandoned a frame before the sender submits the next one.    *)
(* max_retries ranges over small values, the header's default and the two  *)
(* largest values of its uint8_t field.                                    *)
(***************************************************************************)
RetryLimits == {0, 1, 3, 254, 255}

RetryArgs ==
    {[dest |-> PEER_MAC, data |-> "sensor_data", len |-> 1],
     [dest |-> BROADCAST_MAC, data |-> "sensor_data", len |-> 401]}

InitRetry ==
    /\ s_driver_initialized = TRUE
    /\ \E r \in RetryLimits :
          s_config = [InstalledConfig EXCEPT !.max_retries = r]
    /\ s_send_ctx = ZeroCtx
    /\ s_send_done_callback = NULL
    /\ s_send_mutex = [handle |-> 1, owner |-> NO_TASK]
    /\ s_send_event_group = [handle |-> 1, bits |-> {}]
    /\ s_tx_packets = <<>>
    /\ s_current_dest_mac = NULL
    /\ sequence_num = 0
    /\ link_up = TRUE
    /\ link_pending = {}
    /\ task = [t \in Tasks |-> IdleTask]
    /\ calls = 0
    /\ inits = 1
    /\ tx_calls = <<>>
    /\ last_tx = NoTx
    /\ ApiQuiet

RetrySender(t) ==
  /\ UNCHANGED apiVars
  /\
    \/ SendTake(t)
    \/ SendFragment(t)
    \/ SendBegin(t)
    \/ SendLoop(t)
    \/ \E accepted \in BOOLEAN : link_pending = {} /\ RetryAttempt(t, accepted)
    \/ WaitDone(t)
    \/ WaitTimeout(t)
    \/ RetryExhausted(t)
    \/ ChunkDone(t)
    \/ SendFinish(t)
    \/ SendFinishState(t)
    \/ SendNotify(t)
    \/ SendGive(t)

RetryLink ==
  /\ UNCHANGED apiVars
  /\
    \/ \E p \in link_pending : LinkComplete(p, ESP_NOW_SEND_FAIL)
    \/ \E p \in link_pending : LinkDrop(p)

NextRetry ==
    \/ \E a \in RetryArgs :
          SendEntry("task_a", a.dest, a.data, a.len) /\ UNCHANGED apiVars
    \/ RetrySender("task_a")
    \/ RetryLink

SpecRetry == InitRetry /\ [][NextRetry]_vars

\* a task that can run does run, so every wait of the sender ends by its
\* timeout; the link settles or abandons every frame it has accepted
SpecRetryFair ==
    SpecRetry /\ WF_vars(RetrySender("task_a")) /\ WF_vars(RetryLink)

\* C4: on a link where every attempt fails, a fragment is handed to
\* esp_now_send at most max_retries + 1 times, and when
\* send_packet_with_retry gives up it has been handed over exactly
\* max_retries + 1 times.
C4_AttemptsPerFragment ==
    \A t \in Tasks :
       /\ task[t].pc \in {"attempt", "wait"} =>
             task[t].h_attempts <= s_config.max_retries + 1
       /\ task[t].h_failed # -1 =>
             task[t].h_attempts = s_config.max_retries + 1

\* C5: every send call that was started returns.
C5_SendReturns ==
    \A t \in Tasks : (task[t].pc # "idle") ~> (task[t].pc = "idle")

(***************************************************************************)
(* The error a fragment ends with when its retries are exhausted.          *)
(***************************************************************************)
\* C11: when send_packet_with_retry gives up, the error it returns is
\* ESP_ERR_TIMEOUT exactly when the last attempt ended by a timeout of the
\* completion wait; after a rejected submission or a failure completion it
\* is another error.
C11_TerminatingErrorNamesCause ==
    \A t \in Tasks :
       (task[t].pc = "chunk_done" /\ task[t].h_failed = task[t].i) =>
          ((task[t].err = ESP_ERR_TIMEOUT) <=> (task[t].h_cause = "timeout"))

(***************************************************************************)
(* The send-done callback and the release of the send mutex.               *)
(***************************************************************************)
\* C12: a send call that went on to transmit has not invoked the send-done
\* callback while a chunk is still to be resolved; at lines 447-449 it
\* invokes the callback registered at that moment once, or none if none is
\* registered, with the call's destination and success = (result is ESP_OK);
\* it still owns the send mutex after the callback, and gives the mutex in
\* its last step only, returning the result the callback was told.
C12_CallbackOnceThenRelease ==
    [][\A t \in Tasks :
          /\ task'[t].pc \in {"fragmented", "loop", "attempt", "wait",
                               "chunk_done", "finish", "finish_state",
                               "notify"} =>
                /\ task'[t].h_cb.n = 0
                /\ s_send_mutex'.owner = t
          /\ (task[t].pc = "notify" /\ task'[t].pc # "notify") =>
                /\ task'[t].pc = "give"
                /\ task'[t].h_cb.n =
                      (IF s_send_done_callback # NULL THEN 1 ELSE 0)
                /\ task'[t].h_cb.cb = s_send_done_callback
          /\ task'[t].pc = "give" =>
                /\ s_send_mutex'.owner = t
                /\ task'[t].h_cb.n <= 1
                /\ task'[t].h_cb.n = 1 =>
                      /\ task'[t].h_cb.dest = task'[t].dest
                      /\ task'[t].h_cb.success = (task'[t].result = ESP_OK)
          /\ (task[t].pc = "give" /\ task'[t].pc # "give") =>
                /\ s_send_mutex'.owner = NO_TASK
                /\ task'[t].pc = "idle"
                /\ task'[t].ret = task[t].result
          /\ (task[t].h_attempts > 0 /\ s_send_mutex.owner = t
                 /\ s_send_mutex'.owner # t) => task[t].pc = "give"
      ]_vars

\* a call whose second chunk failed has told the callback so and still
\* owns the mutex
C12_Witness ==
    \E t \in Tasks :
       /\ task[t].pc = "give"
       /\ task[t].h_cb.n = 1
       /\ task[t].h_cb.cb = "on_send_done"
       /\ task[t].h_cb.dest = BROADCAST_MAC
       /\ ~task[t].h_cb.success
       /\ task[t].result = ESP_ERR_TIMEOUT
       /\ s_send_mutex.owner = t

(***************************************************************************)
(* C14: on an initialised driver, espnow_driver_send called with a null     *)
(* destination, a null buffer or length 0 returns ESP_ERR_INVALID_ARG at    *)
(* once: the step that enters the call changes neither the mutex, nor the   *)
(* sequence counter, nor the send context, nor the packet array, and hands  *)
(* nothing to the link; and no call that holds the mutex, where             *)
(* fragment_data runs, has length 0.                                        *)
(***************************************************************************)
BadSendArgs(me) == me.dest = NULL \/ me.data = NULL \/ me.len = 0

C14_InvalidArgumentTouchesNothing ==
    [][\A t \in Tasks :
          /\ (task'[t].call # task[t].call /\ s_driver_initialized
                 /\ BadSendArgs(task'[t])) =>
                /\ task'[t].pc = "idle"
                /\ task'[t].ret = ESP_ERR_INVALID_ARG
                /\ UNCHANGED <<s_send_mutex, sequence_num, s_send_ctx,
                               s_tx_packets, s_current_dest_mac, link_pending,
                               tx_calls, last_tx, s_send_event_group>>
          /\ (task'[t].pc \notin {"idle"}) => ~BadSendArgs(task'[t])
      ]_vars

C14_Witness ==
    /\ s_driver_initialized
    /\ \E t \in Tasks :
          /\ task[t].pc = "idle"
          /\ task[t].len = 0 /\ task[t].dest # NULL /\ task[t].data # NULL
          /\ task[t].ret = ESP_ERR_INVALID_ARG
    /\ \E u \in Tasks : task[u].pc = "wait" /\ s_send_mutex.owner = u


(***************************************************************************)
(* C15: s_send_ctx.is_sending is true in every state from the start of      *)
(* fragment_data for a call until the call has fully succeeded or failed    *)
(* for good, and false in every other state: false whenever the mutex is    *)
(* free, and false once a call has returned ESP_ERR_INVALID_SIZE.           *)
(***************************************************************************)
SendUnderWay(t) ==
    /\ s_send_mutex.owner = t
    /\ task[t].pc \in {"fragmented", "loop", "attempt", "wait", "chunk_done",
                        "finish"}

C15_IsSendingSpansTheSend ==
    /\ s_send_ctx.is_sending <=> \E t \in Tasks : SendUnderWay(t)
    /\ s_send_mutex.owner = NO_TASK => ~s_send_ctx.is_sending
    /\ \A t \in Tasks :
          (task[t].pc = "idle" /\ task[t].exit = "too_large"
             /\ \A u \in Tasks : ~SendUnderWay(u)) => ~s_send_ctx.is_sending

(***************************************************************************)
(* The sequence specification: an initialised driver whose sequence        *)
(* counter has reached, after that many earlier sends, a value at the      *)
(* start or at the end of its uint16_t range; two tasks call               *)
(* espnow_driver_send, the link completes or drops frames, and the driver  *)
(* may be deinitialised between calls.                                     *)
(***************************************************************************)
SeqStarts == {0, UINT16_MOD - 2, UINT16_MOD - 1}

InitSeq ==
    /\ s_driver_initialized = TRUE
    /\ s_config = InstalledConfig
    /\ s_send_ctx = ZeroCtx
    /\ s_send_done_callback = NULL
    /\ s_send_mutex = [handle |-> 1, owner |-> NO_TASK]
    /\ s_send_event_group = [handle |-> 1, bits |-> {}]
    /\ s_tx_packets = <<>>
    /\ s_current_dest_mac = NULL
    /\ sequence_num \in SeqStarts
    /\ link_up = TRUE
    /\ link_pending = {}
    /\ task = [t \in Tasks |-> IdleTask]
    /\ calls = 0
    /\ inits = 1
    /\ tx_calls = <<>>
    /\ last_tx = NoTx
    /\ ApiQuiet

NextSeq ==
    \/ \E t \in Tasks : SenderStep(t)
    \/ LinkStep
    \/ NoSendInProgress /\ DriverDeinit /\ UNCHANGED api

SpecSeq == InitSeq /\ [][NextSeq]_vars

(***************************************************************************)
(* C13: sequence_num is a 16-bit counter that changes only in the step in   *)
(* which the holder of the send mutex passes line 407, and there by exactly *)
(* 1 modulo 65536; every call that takes the mutex passes that line, its    *)
(* packets carry the new value, and the value differs from the one of the   *)
(* call that transmitted last; a call refused with ESP_ERR_INVALID_ARG,     *)
(* ESP_ERR_INVALID_STATE or for a busy mutex leaves the counter alone.      *)
(***************************************************************************)
C13_SequenceAdvancesByOneUnderLock ==
    [][/\ sequence_num' \in 0..(UINT16_MOD - 1)
       /\ sequence_num' # sequence_num =>
             /\ sequence_num' = IF sequence_num = UINT16_MOD - 1 THEN 0
                                 ELSE sequence_num + 1
             /\ \E t \in Tasks : /\ s_send_mutex.owner = t
                                  /\ task[t].pc = "locked"
                                  /\ task'[t].pc # "locked"
       /\ \A t \in Tasks :
             /\ (task[t].pc = "locked" /\ task'[t].pc # "locked") =>
                   /\ s_send_mutex.owner = t
                   /\ sequence_num' # sequence_num
                   /\ task'[t].pc = "fragmented" =>
                         /\ task'[t].seq = sequence_num'
                         /\ \A k \in 0..(task'[t].total_chunks - 1) :
                               s_tx_packets'[k].header.packet_sequence
                                  = sequence_num'
                   /\ last_tx.call # 0 =>
                         sequence_num' # last_tx.header.packet_sequence
             /\ (task[t].pc = "take" /\ task'[t].pc = "locked") =>
                   s_send_mutex'.owner = t
             /\ (task[t] # task'[t]
                   /\ task'[t].exit \in {"bad_arg", "not_init", "busy"}) =>
                   sequence_num' = sequence_num
      ]_vars

C13_Witness ==
    /\ sequence_num = 0
    /\ last_tx.call # 0
    /\ last_tx.header.packet_sequence = UINT16_MOD - 1
    /\ \E t \in Tasks : /\ task[t].pc = "fragmented"
                         /\ task[t].seq = 0
                         /\ task[t].call # last_tx.call
                         /\ s_tx_packets[0].header.packet_sequence = 0

(***************************************************************************)
(* espnow_driver_wait_send_done, lines 479-491.  It takes no mutex: the    *)
(* read of is_sending in the loop test and the read of state in the return *)
(* statement are steps between which the sender and the link's completion  *)
(* callback run.  Time is not modelled: whenever the loop test finds       *)
(* is_sending set, the timeout may or may not have elapsed.                *)
(***************************************************************************)
WaitQuiet ==
    UNCHANGED <<driverVars, sendVars, s_send_done_callback, link_pending, inits,
                s_recv_callback, s_last_rssi, link_peers, h_entry, link_depth, api, h_reg,
                h_recv>>

SendReturnedOk(t) ==
    task[t].pc = "idle" /\ task[t].exit = "sent" /\ task[t].ret = ESP_OK

\* line 480: the call and its start time
WaitSendDoneEntry ==
    /\ waiter.pc = "idle"
    /\ waiter' = [pc |-> "poll", ret |-> NULL,
                  h_sent |-> /\ \A t \in Tasks : task[t].pc = "idle"
                             /\ \E t \in Tasks : SendReturnedOk(t)]
    /\ WaitQuiet

\* lines 482-488: the loop test, the timeout check, the delay
WaitSendDonePoll ==
    /\ waiter.pc = "poll"
    /\ IF s_send_ctx.is_sending
       THEN \E elapsed \in BOOLEAN :
               waiter' = IF elapsed
                         THEN [waiter EXCEPT !.pc = "idle", !.ret = ESP_ERR_TIMEOUT]
                         ELSE waiter
       ELSE waiter' = [waiter EXCEPT !.pc = "read"]
    /\ WaitQuiet

\* line 490: the return value from the send state
WaitSendDoneReturn ==
    /\ waiter.pc = "read"
    /\ waiter' = [waiter EXCEPT !.pc = "idle",
                     !.ret = IF s_send_ctx.state = ESPNOW_STATE_IDLE
                             THEN ESP_OK ELSE ESP_FAIL]
    /\ WaitQuiet

(***************************************************************************)
(* The wait specification: an initialised driver, one task that calls      *)
(* espnow_driver_send, the link, and a second task that calls              *)
(* espnow_driver_wait_send_done at any moment.                             *)
(***************************************************************************)
InitWait == InitSeq /\ sequence_num = 0

NextWait ==
    \/ SenderStep("task_a")
    \/ LinkStep
    \/ WaitSendDoneEntry
    \/ WaitSendDonePoll
    \/ WaitSendDoneReturn

SpecWait == InitWait /\ [][NextWait]_vars

(***************************************************************************)
(* C16: espnow_driver_wait_send_done returns only ESP_OK or                 *)
(* ESP_ERR_TIMEOUT: ESP_ERR_TIMEOUT only while is_sending is set, and       *)
(* ESP_OK whenever it returns with is_sending clear and the most recent     *)
(* send ended in success; a wait called after a send that returned ESP_OK,  *)
(* with no send begun before it returns, returns ESP_OK.                    *)
(***************************************************************************)
LastSendSucceeded ==
    \E t \in Tasks :
       \/ SendReturnedOk(t)
       \/ /\ task[t].pc \in {"finish_state", "notify", "give"}
          /\ task[t].result = ESP_OK

C16_WaitReturnsOkOrTimeout ==
    [][(waiter.pc # "idle" /\ waiter'.pc = "idle") =>
          /\ waiter'.ret \in {ESP_OK, ESP_ERR_TIMEOUT}
          /\ waiter'.ret = ESP_ERR_TIMEOUT => s_send_ctx.is_sending
          /\ (~s_send_ctx.is_sending /\ LastSendSucceeded) =>
                waiter'.ret = ESP_OK
          /\ (waiter.h_sent /\ \A t \in Tasks : SendReturnedOk(t)
                                                  \/ task[t].call = 0) =>
                waiter'.ret = ESP_OK
      ]_vars

(***************************************************************************)
(* Return values of the lifecycle and peer functions, and the answers of   *)
(* the link layer to esp_now_add_peer and esp_now_del_peer.                *)
(***************************************************************************)
ESP_ERR_ESPNOW_INTERNAL == "ESP_ERR_ESPNOW_INTERNAL"
ESP_ERR_ESPNOW_EXIST == "ESP_ERR_ESPNOW_EXIST"
ESP_ERR_ESPNOW_FULL == "ESP_ERR_ESPNOW_FULL"
ESP_ERR_ESPNOW_NO_MEM == "ESP_ERR_ESPNOW_NO_MEM"
ESP_ERR_ESPNOW_NOT_FOUND == "ESP_ERR_ESPNOW_NOT_FOUND"

\* a const espnow_peer_t *: <<>> is the null pointer
OTHER_MAC == "24:6F:28:DD:EE:FF"
PeerPtrs ==
    {<<>>} \cup {<<[mac_addr |-> m, channel |-> 1, encrypt |-> FALSE]>> :
                    m \in {PEER_MAC, OTHER_MAC}}
\* what the link layer answers for a peer it does not have yet
AddPeerOutcomes == {ESP_OK, ESP_ERR_ESPNOW_FULL, ESP_ERR_ESPNOW_NO_MEM}

ApiCall(op, arg, link, ret) ==
    api' = [op |-> op, arg |-> arg, link |-> link, ret |-> ret,
            tick |-> 1 - api.tick]

\* lines 234-300: the return statements of espnow_driver_init
espnow_driver_init_ret(config, outcome) ==
    IF s_driver_initialized THEN ESP_ERR_INVALID_STATE
    ELSE IF config = <<>> THEN ESP_ERR_INVALID_ARG
    ELSE IF outcome \in {"no_mem_mutex", "no_mem_event_group"}
    THEN ESP_ERR_NO_MEM
    ELSE IF \/ outcome \in {"init_fail", "reg_send_fail", "reg_recv_fail"}
            \/ outcome = "pmk_fail" /\ config[1].enable_encryption
    THEN ESP_ERR_ESPNOW_INTERNAL
    ELSE ESP_OK

\* lines 304-306 and 326: the return statements of espnow_driver_deinit
espnow_driver_deinit_ret ==
    IF ~s_driver_initialized THEN ESP_ERR_INVALID_STATE ELSE ESP_OK

\* esp_now_add_peer: a peer in the table is reported as existing
esp_now_add_peer(mac, outcome) ==
    IF mac \in link_peers THEN ESP_ERR_ESPNOW_EXIST ELSE outcome

\* the return value of add_peer with "already exists" passed on as it is
espnow_driver_add_peer_ret_ExistIsError(peer, outcome) ==
    IF ~s_driver_initialized THEN ESP_ERR_INVALID_STATE
    ELSE IF peer = <<>> THEN ESP_ERR_INVALID_ARG
    ELSE esp_now_add_peer(peer[1].mac_addr, outcome)

\* lines 330-365: the return statements of espnow_driver_add_peer
espnow_driver_add_peer_ret(peer, outcome) ==
    IF ~s_driver_initialized THEN ESP_ERR_INVALID_STATE
    ELSE IF peer = <<>> THEN ESP_ERR_INVALID_ARG
    ELSE LET err == esp_now_add_peer(peer[1].mac_addr, outcome)
         IN  IF err # ESP_OK
             THEN IF err = ESP_ERR_ESPNOW_EXIST THEN ESP_OK ELSE err
             ELSE ESP_OK

PeerQuiet ==
    UNCHANGED <<driverVars, sendVars, s_send_done_callback, link_pending, inits,
                s_recv_callback, s_last_rssi, waiter, h_entry, link_depth, h_reg, h_recv>>

\* lines 329-366
espnow_driver_add_peer(peer, outcome) ==
    /\ LET called == s_driver_initialized /\ peer # <<>>
           err == IF called THEN esp_now_add_peer(peer[1].mac_addr, outcome)
                  ELSE NULL
       IN  /\ link_peers' = IF called /\ err = ESP_OK
                             THEN link_peers \cup {peer[1].mac_addr}
                             ELSE link_peers
           /\ ApiCall("add_peer", peer, err,
                      espnow_driver_add_peer_ret(peer, outcome))
    /\ PeerQuiet

\* esp_now_del_peer: a peer not in the table is reported as not found
esp_now_del_peer(mac) ==
    IF mac \in link_peers THEN ESP_OK ELSE ESP_ERR_ESPNOW_NOT_FOUND

\* lines 368-386
espnow_driver_remove_peer(mac) ==
    /\ LET called == s_driver_initialized /\ mac # NULL
           err == IF called THEN esp_now_del_peer(mac) ELSE NULL
       IN  /\ link_peers' = IF called THEN link_peers \ {mac} ELSE link_peers
           /\ ApiCall("remove_peer", mac, err,
                      IF ~s_driver_initialized THEN ESP_ERR_INVALID_STATE
                      ELSE IF mac = NULL THEN ESP_ERR_INVALID_ARG
                      ELSE err)
    /\ PeerQuiet

\* lines 465-468
espnow_driver_register_recv_cb(cb) ==
    /\ s_recv_callback' = cb
    /\ h_reg' = [h_reg EXCEPT !.recv = cb]
    /\ UNCHANGED <<driverVars, sendVars, link_pending, inits,
                   s_send_done_callback, s_last_rssi, link_peers, waiter, h_entry, link_depth,
                   h_recv>>

(***************************************************************************)
(* The lifecycle specification: the application initialises and            *)
(* deinitialises the driver, registers callbacks and adds and removes      *)
(* peers in any order; no send is in progress.  Every call records what it *)
(* returned.                                                               *)
(***************************************************************************)
RecvCallbacks == {NULL, "on_receive", "on_receive_alt"}

NextApi ==
    \/ \E config \in ConfigPtrs, outcome \in InitOutcomes :
          /\ DriverInit(config, outcome)
          /\ ApiCall("init", config, NULL,
                     espnow_driver_init_ret(config, outcome))
    \/ DriverDeinit /\ ApiCall("deinit", NULL, NULL, espnow_driver_deinit_ret)
    \/ \E peer \in PeerPtrs, outcome \in AddPeerOutcomes :
          espnow_driver_add_peer(peer, outcome)
    \/ \E mac \in {NULL, PEER_MAC, OTHER_MAC} : espnow_driver_remove_peer(mac)
    \/ \E cb \in RecvCallbacks :
          espnow_driver_register_recv_cb(cb) /\ UNCHANGED api
    \/ \E cb \in Callbacks :
          espnow_driver_register_send_done_cb(cb) /\ UNCHANGED api

SpecApi == Init /\ [][NextApi]_vars

Called(op) == api'.tick # api.tick /\ api'.op = op

(***************************************************************************)
(* C17: espnow_driver_init on an initialised driver returns                 *)
(* ESP_ERR_INVALID_STATE and changes nothing: s_config, the mutex and the   *)
(* event group, both callbacks, the send context, the link layer and its    *)
(* peers are as before; and while the driver stays initialised no call      *)
(* changes s_config.                                                        *)
(***************************************************************************)
C17_SecondInitChangesNothing ==
    [][/\ (Called("init") /\ s_driver_initialized) =>
             /\ api'.ret = ESP_ERR_INVALID_STATE
             /\ UNCHANGED <<s_driver_initialized, s_config, s_send_mutex,
                            s_send_event_group, s_recv_callback,
                            s_send_done_callback, s_send_ctx, link_up,
                            link_peers, link_pending, inits>>
       /\ (s_driver_initialized /\ s_driver_initialized') =>
             s_config' = s_config
      ]_vars

C17_Witness ==
    /\ s_driver_initialized
    /\ api.op = "init"
    /\ api.ret = ESP_ERR_INVALID_STATE
    /\ api.arg # <<>>
    /\ api.arg # <<s_config>>
    /\ s_recv_callback # NULL
    /\ link_peers # {}

(***************************************************************************)
(* C18: espnow_driver_deinit always returns ESP_OK; called on a driver that *)
(* is not initialised it changes no state and returns ESP_OK.               *)
(***************************************************************************)
C18_DeinitAlwaysOk ==
    [][Called("deinit") =>
          /\ api'.ret = ESP_OK
          /\ ~s_driver_initialized =>
                UNCHANGED <<driverVars, sendVars, s_send_done_callback,
                            link_pending, inits, s_recv_callback, s_last_rssi,
                            link_peers, waiter, h_entry, link_depth, h_reg, h_recv>>
      ]_vars

(***************************************************************************)
(* C20: espnow_driver_add_peer returns ESP_OK when esp_now_add_peer accepts *)
(* the peer and when it answers that the peer exists, so that adding a peer *)
(* that is already in the table returns ESP_OK; any other error of          *)
(* esp_now_add_peer is returned as it is.                                   *)
(***************************************************************************)
C20_AddPeerExistIsOk ==
    [][Called("add_peer") =>
          /\ (s_driver_initialized /\ api'.arg # <<>>) =>
                /\ api'.link # NULL
                /\ api'.ret = IF api'.link \in {ESP_OK, ESP_ERR_ESPNOW_EXIST}
                              THEN ESP_OK ELSE api'.link
                /\ api'.arg[1].mac_addr \in link_peers => api'.ret = ESP_OK
                /\ api'.link = ESP_OK =>
                      link_peers' = link_peers \cup {api'.arg[1].mac_addr}
                /\ api'.link # ESP_OK => link_peers' = link_peers
      ]_vars

C20_Witness ==
    /\ api.op = "add_peer"
    /\ api.link = ESP_ERR_ESPNOW_EXIST
    /\ api.ret = ESP_OK
    /\ api.arg # <<>>
    /\ api.arg[1].mac_addr \in link_peers

(***************************************************************************)
(* espnow_recv_cb, lines 92-128.  A datagram is what the link layer hands  *)
(* to the handler: recv_info (<<>> is the null pointer), the data pointer  *)
(* (<<>> null, else the bytes 0..len-1) and len.  The handler overlays a   *)
(* packed espnow_packet_t on the bytes; a byte it reads at or past len is  *)
(* outside the datagram and has the value beyond.                          *)
(***************************************************************************)
RxByte(rx, k, beyond) == IF k < rx.len THEN rx.data[1][k] ELSE beyond

RxU16(rx, k, beyond) ==
    RxByte(rx, k, beyond) + UINT8_MOD * RxByte(rx, k + 1, beyond)

RxHeader(rx, beyond) ==
    [node_id |-> RxByte(rx, 0, beyond),
     packet_sequence |-> RxU16(rx, 1, beyond),
     total_chunks |-> RxByte(rx, 3, beyond),
     chunk_index |-> RxByte(rx, 4, beyond),
     payload_length |-> RxU16(rx, 5, beyond),
     crc16 |-> RxU16(rx, 7, beyond)]

RxPayload(rx, beyond) ==
    [k \in 0..(RxHeader(rx, beyond).payload_length - 1) |->
        RxByte(rx, PACKET_HEADER_SIZE + k, beyond)]

\* a handler that takes a datagram of any length
RxAccepted_NoLength(rx) == rx.info # <<>> /\ rx.data # <<>>

\* line 93
RxAccepted(rx) ==
    rx.info # <<>> /\ rx.data # <<>> /\ rx.len >= PACKET_HEADER_SIZE

\* a handler that takes every checksum for good
RxCrcOk_Always(rx, beyond) == TRUE

\* a handler that checksums the whole payload array of the packet structure
RxCrcOk_OverPayloadArray(rx, beyond) ==
    espnow_crc16([k \in 0..(ESPNOW_MAX_PAYLOAD_SIZE - 1) |->
                     RxByte(rx, PACKET_HEADER_SIZE + k, beyond)],
                 ESPNOW_MAX_PAYLOAD_SIZE)
       = RxHeader(rx, beyond).crc16

\* lines 104-109
RxCrcOk(rx, beyond) ==
    espnow_crc16(RxPayload(rx, beyond), RxHeader(rx, beyond).payload_length)
       = RxHeader(rx, beyond).crc16

\* a handler that records the signal strength of verified frames only
RxRssi_AfterCrc(rx, beyond) ==
    IF RxAccepted(rx) /\ RxCrcOk(rx, beyond) THEN rx.info[1].rssi
    ELSE s_last_rssi

\* line 99, reached after line 93 only: the new value of s_last_rssi
RxRssi(rx, beyond) ==
    IF RxAccepted(rx) THEN rx.info[1].rssi ELSE s_last_rssi

\* a handler that hands the whole datagram, header included, to the callback
RxDelivered_WholeDatagram(rx, beyond) ==
    [src |-> rx.info[1].src_addr,
     data |-> <<[k \in 0..(rx.len - 1) |-> RxByte(rx, k, beyond)]>>,
     len |-> rx.len]

\* lines 125-126: the first three arguments of the callback
RxDelivered(rx, beyond) ==
    [src |-> rx.info[1].src_addr,
     data |-> <<RxPayload(rx, beyond)>>,
     len |-> RxHeader(rx, beyond).payload_length]

espnow_recv_cb(rx, beyond) ==
    /\ link_up
    /\ LET passed == RxAccepted(rx) /\ RxCrcOk(rx, beyond)
           seen == [h_recv EXCEPT
                      !.rx = <<rx>>, !.runs = 1 - @, !.passed = passed,
                      !.span = IF RxAccepted(rx)
                               THEN PACKET_HEADER_SIZE
                                       + RxHeader(rx, beyond).payload_length
                               ELSE 0]
       IN  /\ s_last_rssi' = RxRssi(rx, beyond)
           /\ h_recv' = IF passed /\ s_recv_callback # NULL
                         THEN [seen EXCEPT
                                 !.cb = s_recv_callback,
                                 !.src = RxDelivered(rx, beyond).src,
                                 !.data = RxDelivered(rx, beyond).data,
                                 !.len = RxDelivered(rx, beyond).len,
                                 !.rssi = s_last_rssi',
                                 !.n = 1 - @]
                         ELSE seen
    /\ UNCHANGED <<driverVars, sendVars, s_send_done_callback, link_pending,
                   inits, s_recv_callback, link_peers, waiter, h_entry, link_depth, api,
                   h_reg>>

\* the bytes on the air of a one-chunk packet of a remote node
WireFrame(node, seq, data, len, crc) ==
    [k \in 0..(PACKET_HEADER_SIZE + len - 1) |->
        CASE k = 0 -> node
          [] k = 1 -> seq % UINT8_MOD
          [] k = 2 -> seq \div UINT8_MOD
          [] k = 3 -> 1
          [] k = 4 -> 0
          [] k = 5 -> len % UINT8_MOD
          [] k = 6 -> len \div UINT8_MOD
          [] k = 7 -> crc % UINT8_MOD
          [] k = 8 -> crc \div UINT8_MOD
          [] OTHER -> DataByte(data, k - PACKET_HEADER_SIZE)]

PayloadCrc(data, len) ==
    espnow_crc16([k \in 0..(len - 1) |-> DataByte(data, k)], len)

Datagram(src, rssi, bytes) ==
    [info |-> <<[src_addr |-> src, rssi |-> rssi]>>, data |-> <<bytes>>,
     len |-> Cardinality(DOMAIN bytes)]

(***************************************************************************)
(* The callback specification: the application initialises and             *)
(* deinitialises the driver and registers receive and send-done callbacks  *)
(* at any moment; one task sends; the link completes transmits and         *)
(* delivers datagrams: a sound frame, one with a wrong checksum, one       *)
(* shorter than a header.                                                  *)
(***************************************************************************)
SendDoneCallbacks == Callbacks \cup {"on_send_done_alt"}

CbDatagrams ==
    {Datagram(PEER_MAC, -40, WireFrame(2, 7, "sensor_data", 2,
                                       PayloadCrc("sensor_data", 2))),
     Datagram(PEER_MAC, -90, WireFrame(2, 7, "sensor_data", 2,
                                       (PayloadCrc("sensor_data", 2) + 1)
                                          % UINT16_MOD)),
     Datagram(PEER_MAC, -40, [k \in 0..(PACKET_HEADER_SIZE - 2) |-> 0])}

NextCb ==
    \/ \E outcome \in {"ok", "reg_recv_fail"} :
          DriverInit(<<InstalledConfig>>, outcome) /\ UNCHANGED api
    \/ NoSendInProgress /\ DriverDeinit /\ UNCHANGED api
    \/ \E cb \in RecvCallbacks :
          espnow_driver_register_recv_cb(cb) /\ UNCHANGED api
    \/ \E cb \in SendDoneCallbacks :
          espnow_driver_register_send_done_cb(cb) /\ UNCHANGED api
    \/ \E rx \in CbDatagrams : espnow_recv_cb(rx, 0)
    \/ SendEntry("task_a", BROADCAST_MAC, "sensor_data", 1)
          /\ UNCHANGED apiVars
    \/ RetrySender("task_a")
    \/ LinkStep

SpecCb == Init /\ [][NextCb]_vars

(***************************************************************************)
(* C19: the callback that espnow_recv_cb invokes, and the one that          *)
(* espnow_driver_send invokes when a send is over, is the one registered    *)
(* last since the driver was last torn down: a frame that passes the        *)
(* checks reaches that callback and no other, a send that is over reaches   *)
(* the send-done callback registered last, and with NULL registered last,   *)
(* or nothing registered since espnow_driver_deinit, none is invoked.       *)
(***************************************************************************)
C19_LatestRegisteredCallback ==
    [][/\ h_recv'.runs # h_recv.runs =>
             /\ h_recv'.n # h_recv.n <=> (h_recv'.passed /\ h_reg.recv # NULL)
             /\ h_recv'.n # h_recv.n => h_recv'.cb = h_reg.recv
       /\ \A t \in Tasks :
             (task[t].pc = "notify" /\ task'[t].pc # "notify") =>
                /\ task'[t].h_cb.n = 1 <=> h_reg.send # NULL
                /\ task'[t].h_cb.n = 1 => task'[t].h_cb.cb = h_reg.send
       /\ (s_driver_initialized /\ ~s_driver_initialized') =>
             h_reg' = NoReg
       /\ \A cb \in RecvCallbacks :
             (s_recv_callback' = cb /\ s_recv_callback # cb
                /\ ~(s_driver_initialized /\ ~s_driver_initialized')) =>
                h_reg'.recv = cb
       /\ \A cb \in SendDoneCallbacks :
             (s_send_done_callback' = cb /\ s_send_done_callback # cb
                /\ ~(s_driver_initialized /\ ~s_driver_initialized')) =>
                h_reg'.send = cb
      ]_vars

\* a second receive callback replaced the first and took the frame
C19_Witness ==
    /\ h_recv.cb = "on_receive_alt"
    /\ h_recv.n = 1
    /\ h_reg.recv = "on_receive_alt"
    /\ inits = MaxInits
    /\ \E t \in Tasks : /\ task[t].h_cb.n = 1
                         /\ task[t].h_cb.cb = "on_send_done_alt"

(***************************************************************************)
(* espnow_driver_broadcast, lines 460-463, and the two entry points of a   *)
(* send as an application task calls them; h_entry keeps which one a task  *)
(* called last.                                                            *)
(***************************************************************************)
EntryQuiet ==
    UNCHANGED <<s_recv_callback, s_last_rssi, link_peers, link_depth, waiter,
                api, h_reg, h_recv>>

CallSend(t, dest, data, len) ==
    /\ SendEntry(t, dest, data, len)
    /\ h_entry' = [h_entry EXCEPT ![t] = "send"]
    /\ EntryQuiet

\* a broadcast that goes to the peer's address
espnow_driver_broadcast_ToPeer(t, data, len) ==
    /\ SendEntry(t, PEER_MAC, data, len)
    /\ h_entry' = [h_entry EXCEPT ![t] = "broadcast"]
    /\ EntryQuiet

espnow_driver_broadcast(t, data, len) ==
    /\ SendEntry(t, BROADCAST_MAC, data, len)
    /\ h_entry' = [h_entry EXCEPT ![t] = "broadcast"]
    /\ EntryQuiet

(***************************************************************************)
(* The lifecycle-and-send specification: one task calls send and           *)
(* broadcast; the application initialises (with every outcome of the       *)
(* primitives init calls) and deinitialises the driver between sends and   *)
(* adds and removes a peer and registers a send-done callback; the link    *)
(* completes or drops frames.                                              *)
(***************************************************************************)
LifeArgs ==
    {[dest |-> PEER_MAC, data |-> "sensor_data", len |-> 1],
     [dest |-> BROADCAST_MAC, data |-> "sensor_data", len |-> 201],
     [dest |-> PEER_MAC, data |-> "sensor_data", len |-> 0],
     [dest |-> BROADCAST_MAC, data |-> NULL, len |-> 1]}

NextLife ==
    \/ \E outcome \in InitOutcomes :
          /\ DriverInit(<<InstalledConfig>>, outcome)
          /\ ApiCall("init", <<InstalledConfig>>, NULL,
                     espnow_driver_init_ret(<<InstalledConfig>>, outcome))
    \/ /\ NoSendInProgress
       /\ DriverDeinit
       /\ ApiCall("deinit", NULL, NULL, espnow_driver_deinit_ret)
    \/ \E outcome \in AddPeerOutcomes :
          espnow_driver_add_peer(
             <<[mac_addr |-> PEER_MAC, channel |-> 1, encrypt |-> FALSE]>>,
             outcome)
    \/ espnow_driver_remove_peer(PEER_MAC)
    \/ espnow_driver_register_send_done_cb("on_send_done") /\ UNCHANGED api
    \/ \E a \in LifeArgs : CallSend("task_a", a.dest, a.data, a.len)
    \/ \E a \in LifeArgs : espnow_driver_broadcast("task_a", a.data, a.len)
    \/ RetrySender("task_a")
    \/ LinkStep

SpecLife == Init /\ [][NextLife]_vars

(***************************************************************************)
(* C21: while s_driver_initialized is false (before init, after deinit,     *)
(* after an init that failed), espnow_driver_send, espnow_driver_broadcast, *)
(* espnow_driver_add_peer and espnow_driver_remove_peer return              *)
(* ESP_ERR_INVALID_STATE; the call makes no call into the link layer and    *)
(* leaves the mutex, the sequence counter and the send context as they      *)
(* were.                                                                    *)
(***************************************************************************)
LinkAndSendUntouched ==
    UNCHANGED <<s_send_mutex, s_send_event_group, sequence_num, s_send_ctx,
                s_tx_packets, s_current_dest_mac, link_up, link_pending,
                link_peers, tx_calls, last_tx>>

C21_NotInitializedTouchesNothing ==
    [][~s_driver_initialized =>
          /\ \A t \in Tasks :
                task'[t].call # task[t].call =>
                   /\ h_entry'[t] \in {"send", "broadcast"}
                   /\ task'[t].pc = "idle"
                   /\ task'[t].ret = ESP_ERR_INVALID_STATE
                   /\ LinkAndSendUntouched
          /\ (Called("add_peer") \/ Called("remove_peer")) =>
                /\ api'.ret = ESP_ERR_INVALID_STATE
                /\ api'.link = NULL
                /\ LinkAndSendUntouched
      ]_vars

\* after an init that failed with the mutex already created: a broadcast and
\* an add_peer have been refused
C21_Witness ==
    /\ ~s_driver_initialized
    /\ inits > 0
    /\ s_send_mutex.handle # NULL_HANDLE
    /\ h_entry["task_a"] = "broadcast"
    /\ task["task_a"].ret = ESP_ERR_INVALID_STATE
    /\ api.op = "add_peer"
    /\ api.ret = ESP_ERR_INVALID_STATE

(***************************************************************************)
(* C26: espnow_driver_broadcast(data, len) is                               *)
(* espnow_driver_send(FF:FF:FF:FF:FF:FF, data, len): the step that enters   *)
(* it is the entry step of that send (same tests, same return values), the  *)
(* call then runs the steps of a send, and every frame it submits, the      *)
(* current destination and the send-done callback carry the broadcast       *)
(* address.                                                                 *)
(***************************************************************************)
C26_BroadcastIsSendToBroadcastAddress ==
    [][\A t \in Tasks :
          /\ (task'[t].call # task[t].call /\ h_entry'[t] = "broadcast") =>
                \E a \in LifeArgs : SendEntry(t, BROADCAST_MAC, a.data, a.len)
          /\ (h_entry[t] = "broadcast" /\ task[t].pc # "idle"
                /\ task'[t] # task[t]) =>
                /\ task[t].dest = BROADCAST_MAC
                /\ \/ SendTake(t) \/ SendFragment(t) \/ SendBegin(t)
                   \/ SendLoop(t)
                   \/ \E accepted \in BOOLEAN : RetryAttempt(t, accepted)
                   \/ WaitDone(t) \/ WaitTimeout(t) \/ RetryExhausted(t)
                   \/ ChunkDone(t) \/ SendFinish(t) \/ SendFinishState(t)
                   \/ SendNotify(t) \/ SendGive(t)
                /\ last_tx' # last_tx => last_tx'.dest = BROADCAST_MAC
                /\ task'[t].h_cb.n = 1 => task'[t].h_cb.dest = BROADCAST_MAC
                /\ s_current_dest_mac' \in {s_current_dest_mac, BROADCAST_MAC}
      ]_vars

\* a two-chunk broadcast has been sent and reported to the callback
C26_Witness ==
    /\ h_entry["task_a"] = "broadcast"
    /\ task["task_a"].pc = "give"
    /\ task["task_a"].total_chunks = 2
    /\ task["task_a"].result = ESP_OK
    /\ task["task_a"].h_cb.n = 1
    /\ task["task_a"].h_cb.dest = BROADCAST_MAC
    /\ last_tx.dest = BROADCAST_MAC
    /\ last_tx.header.chunk_index = 1

(***************************************************************************)
(* The receive specification: an initialised driver whose link delivers    *)
(* datagrams while the application registers and clears its receive        *)
(* callback.  The datagrams are the two fragments of a 201-byte message    *)
(* and a 3-byte message as the send path frames them, the latter with its  *)
(* checksum altered, with a payload byte altered, cut below the header     *)
(* size, cut to nothing and cut inside the payload, a full fragment with   *)
(* its last byte altered, and calls with a null recv_info or a null data   *)
(* pointer.                                                                *)
(***************************************************************************)
\* the first packet_size bytes of a packed espnow_packet_t, as lines 180 and
\* 191 hand them to esp_now_send
PacketBytes(packet) ==
    [k \in 0..(PACKET_HEADER_SIZE + packet.header.payload_length - 1) |->
        CASE k = 0 -> packet.header.node_id
          [] k = 1 -> packet.header.packet_sequence % UINT8_MOD
          [] k = 2 -> packet.header.packet_sequence \div UINT8_MOD
          [] k = 3 -> packet.header.total_chunks
          [] k = 4 -> packet.header.chunk_index
          [] k = 5 -> packet.header.payload_length % UINT8_MOD
          [] k = 6 -> packet.header.payload_length \div UINT8_MOD
          [] k = 7 -> packet.header.crc16 % UINT8_MOD
          [] k = 8 -> packet.header.crc16 \div UINT8_MOD
          [] OTHER -> packet.payload[k - PACKET_HEADER_SIZE]]

Altered(bytes, k) == [bytes EXCEPT ![k] = (@ + 1) % UINT8_MOD]

CutTo(bytes, n) == [k \in 0..(n - 1) |-> bytes[k]]

LongMessage(i) ==
    PacketBytes(fragment_packet("sensor_data", ESPNOW_MAX_PAYLOAD_SIZE + 1, 7,
                                2, i, ZeroPacket))

ShortMessage ==
    PacketBytes(fragment_packet("sensor_data", 3, 8, 1, 0, ZeroPacket))

RecvDatagrams ==
    {Datagram(PEER_MAC, -40, LongMessage(0)),
     Datagram(PEER_MAC, -41, LongMessage(1)),
     Datagram(OTHER_MAC, -42, ShortMessage),
     Datagram(PEER_MAC, -90, Altered(ShortMessage, 7)),
     Datagram(PEER_MAC, -91, Altered(ShortMessage, PACKET_HEADER_SIZE)),
     Datagram(PEER_MAC, -92,
              Altered(LongMessage(0),
                      PACKET_HEADER_SIZE + ESPNOW_MAX_PAYLOAD_SIZE - 1)),
     Datagram(PEER_MAC, -80, CutTo(ShortMessage, PACKET_HEADER_SIZE - 1)),
     Datagram(PEER_MAC, -81, CutTo(ShortMessage, 0)),
     Datagram(PEER_MAC, -70, CutTo(ShortMessage, PACKET_HEADER_SIZE + 2)),
     [Datagram(PEER_MAC, -60, ShortMessage) EXCEPT !.info = <<>>],
     [Datagram(PEER_MAC, -61, ShortMessage) EXCEPT !.data = <<>>]}

\* what a read past the end of the datagram finds: the byte that was cut off
\* the short message, or another
BeyondBytes == {0, DataByte("sensor_data", 2)}

NextRecv ==
    \/ \E cb \in RecvCallbacks :
          espnow_driver_register_recv_cb(cb) /\ UNCHANGED api
    \/ \E rx \in RecvDatagrams, beyond \in BeyondBytes :
          espnow_recv_cb(rx, beyond)

SpecRecv == InitWait /\ [][NextRecv]_vars

\* the datagram of the handler's last run; its header and payload as the bytes
\* of the datagram give them, for a datagram that holds all of its payload
LastRx == h_recv'.rx[1]

Ran == h_recv'.runs # h_recv.runs

Invoked == h_recv'.n # h_recv.n

Whole(rx) ==
    /\ RxAccepted(rx)
    /\ rx.len >= PACKET_HEADER_SIZE + rx.data[1][5] + UINT8_MOD * rx.data[1][6]

DeclaredLength(rx) == rx.data[1][5] + UINT8_MOD * rx.data[1][6]

DeclaredCrc(rx) == rx.data[1][7] + UINT8_MOD * rx.data[1][8]

CarriedPayload(rx) ==
    [k \in 0..(DeclaredLength(rx) - 1) |-> rx.data[1][PACKET_HEADER_SIZE + k]]

CrcMatches(rx) ==
    espnow_crc16(CarriedPayload(rx), DeclaredLength(rx)) = DeclaredCrc(rx)

\* lines 493-495
espnow_driver_get_last_rssi == s_last_rssi

RecvQuiet ==
    UNCHANGED <<driverVars, sendVars, s_send_done_callback, link_pending,
                inits, s_recv_callback, link_peers, waiter, h_entry, link_depth, api,
                h_reg>>

(***************************************************************************)
(* C22: the receive callback is not invoked for a datagram whose header     *)
(* checksum differs from espnow_crc16 over its payload_length payload       *)
(* bytes; the handler returns with nothing but the recorded signal strength *)
(* changed, and whenever it does invoke the callback the checksum it        *)
(* recomputed was the header's.                                             *)
(***************************************************************************)
C22_ChecksumMismatchIsDropped ==
    [][Ran =>
          /\ (Whole(LastRx) /\ ~CrcMatches(LastRx)) =>
                /\ ~Invoked
                /\ ~h_recv'.passed
                /\ RecvQuiet
          /\ Invoked => h_recv'.passed
      ]_vars

\* the short message with a payload byte altered has come in while a callback
\* was registered, and was not delivered
C22_Witness ==
    /\ h_recv.rx = <<Datagram(PEER_MAC, -91,
                              Altered(ShortMessage, PACKET_HEADER_SIZE))>>
    /\ s_recv_callback = "on_receive"
    /\ h_recv.runs = 1
    /\ h_recv.n = 0

(***************************************************************************)
(* C23: for a datagram shorter than the 9-byte header the handler returns   *)
(* at once: the callback is not invoked, s_last_rssi keeps its value and    *)
(* no byte of the datagram is read.                                         *)
(***************************************************************************)
C23_ShortDatagramIsRejected ==
    [][(Ran /\ LastRx.info # <<>> /\ LastRx.data # <<>>
          /\ LastRx.len < PACKET_HEADER_SIZE) =>
          /\ ~Invoked
          /\ s_last_rssi' = s_last_rssi
          /\ h_recv'.span = 0
          /\ ~h_recv'.passed
          /\ RecvQuiet
      ]_vars

\* an 8-byte datagram came in after a delivered one and left its RSSI in place
C23_Witness ==
    /\ h_recv.rx = <<Datagram(PEER_MAC, -80,
                              CutTo(ShortMessage, PACKET_HEADER_SIZE - 1))>>
    /\ s_recv_callback # NULL
    /\ h_recv.n = 1
    /\ h_recv.runs = 0
    /\ s_last_rssi = -42

(***************************************************************************)
(* C24: s_last_rssi is written before the checksum is verified: after any   *)
(* datagram of at least header size espnow_driver_get_last_rssi returns     *)
(* that datagram's RSSI, whether or not the checksum matched, so a corrupt  *)
(* frame changes it while its payload is not delivered.                     *)
(***************************************************************************)
C24_RssiBeforeChecksum ==
    [][(Ran /\ RxAccepted(LastRx)) =>
          /\ espnow_driver_get_last_rssi' = LastRx.info[1].rssi
          /\ (Whole(LastRx) /\ ~CrcMatches(LastRx)) =>
                /\ s_last_rssi' = LastRx.info[1].rssi
                /\ ~Invoked
                /\ h_recv'.rssi = h_recv.rssi
      ]_vars

\* a frame with a wrong checksum set the RSSI after a sound one was delivered
C24_Witness ==
    /\ h_recv.rx = <<Datagram(PEER_MAC, -90, Altered(ShortMessage, 7))>>
    /\ ~h_recv.passed
    /\ s_last_rssi = -90
    /\ h_recv.rssi = -40
    /\ h_recv.n = 1

(***************************************************************************)
(* C25: for every datagram of at least header size whose checksum matches,  *)
(* while a receive callback is registered, the callback is invoked, once,   *)
(* with the datagram's source address, the payload_length bytes that follow *)
(* the header, that length and the datagram's RSSI; each fragment is        *)
(* delivered by itself; with no callback registered nothing is invoked.     *)
(***************************************************************************)
C25_ValidDatagramIsDelivered ==
    [][(Ran /\ Whole(LastRx) /\ CrcMatches(LastRx)) =>
          IF s_recv_callback # NULL
          THEN /\ Invoked
               /\ h_recv'.cb = s_recv_callback
               /\ h_recv'.src = LastRx.info[1].src_addr
               /\ h_recv'.data = <<CarriedPayload(LastRx)>>
               /\ h_recv'.len = DeclaredLength(LastRx)
               /\ h_recv'.len = Cardinality(DOMAIN h_recv'.data[1])
               /\ h_recv'.rssi = LastRx.info[1].rssi
               /\ RecvQuiet
          ELSE ~Invoked
      ]_vars

\* the one-byte second fragment of the long message was delivered by itself,
\* after the first
C25_Witness ==
    /\ h_recv.rx = <<Datagram(PEER_MAC, -41, LongMessage(1))>>
    /\ h_recv.cb = "on_receive"
    /\ h_recv.src = PEER_MAC
    /\ h_recv.len = 1
    /\ h_recv.data = <<[k \in {0} |->
                          DataByte("sensor_data", ESPNOW_MAX_PAYLOAD_SIZE)]>>
    /\ h_recv.rssi = -41
    /\ h_recv.n = 0
    /\ h_recv.runs = 0

(***************************************************************************)
(* The size of a submitted frame.                                          *)
(***************************************************************************)
\* task t hands a frame to esp_now_send in this step
Submits(t) ==
    /\ task[t].pc = "attempt"
    /\ task'[t].h_attempts = task[t].h_attempts + 1

\* sizeof(espnow_packet_t)
PACKET_STRUCT_SIZE == PACKET_HEADER_SIZE + ESPNOW_MAX_PAYLOAD_SIZE

(***************************************************************************)
(* C28: every frame handed to the link layer is 9 + payload_length bytes    *)
(* long, the header followed by exactly the valid payload bytes of the      *)
(* fragment being sent, so a fragment shorter than 200 bytes is never sent  *)
(* as the 209-byte packet structure; a retry of a fragment submits the same *)
(* number of bytes as the attempt before it.                                *)
(***************************************************************************)
C28_FrameLengthIsHeaderPlusPayload ==
    [][\A t \in Tasks :
          Submits(t) =>
             LET chunk == fragment_chunk_size(task[t].len, task[t].i)
             IN  /\ last_tx'.header.payload_length = chunk
                 /\ last_tx'.size = PACKET_HEADER_SIZE + chunk
                 /\ DOMAIN last_tx'.payload = 0..(chunk - 1)
                 /\ (chunk < ESPNOW_MAX_PAYLOAD_SIZE)
                       => last_tx'.size < PACKET_STRUCT_SIZE
                 /\ (task[t].retry > 0) =>
                       /\ last_tx.call = task[t].call
                       /\ last_tx.header.chunk_index = task[t].i
                       /\ last_tx'.size = last_tx.size
      ]_vars

\* the one-byte last fragment of a 401-byte send was submitted a second time,
\* as ten bytes
C28_Witness ==
    \E t \in Tasks :
       /\ task[t].len = 401
       /\ task[t].i = 2
       /\ task[t].retry = 1
       /\ task[t].h_attempts = 2
       /\ last_tx.call = task[t].call
       /\ last_tx.header.chunk_index = 2
       /\ last_tx.size = PACKET_HEADER_SIZE + 1

(***************************************************************************)
(* The good-link specification: an initialised driver whose link layer     *)
(* accepts every frame and delivers a successful completion for it before  *)
(* the sender's wait of send_timeout_ms ends; one task sends buffers of    *)
(* the lengths below, the last of which is one byte too long.              *)
(***************************************************************************)
GoodLens == {1, ESPNOW_MAX_PAYLOAD_SIZE, ESPNOW_MAX_PAYLOAD_SIZE + 1, 480,
             MAX_SEND_LEN, MAX_SEND_LEN + 1}

GoodSender(t) ==
  /\ UNCHANGED apiVars
  /\
    \/ SendTake(t)
    \/ SendFragment(t)
    \/ SendBegin(t)
    \/ SendLoop(t)
    \/ RetryAttempt(t, TRUE)
    \/ WaitDone(t)
    \/ ChunkDone(t)
    \/ SendFinish(t)
    \/ SendFinishState(t)
    \/ SendNotify(t)
    \/ SendGive(t)

GoodLink ==
    /\ UNCHANGED apiVars
    /\ \E p \in link_pending : LinkComplete(p, ESP_NOW_SEND_SUCCESS)

NextGood ==
    \/ \E len \in GoodLens : CallSend("task_a", PEER_MAC, "sensor_data", len)
    \/ GoodSender("task_a")
    \/ GoodLink

\* the driver after a successful init with either configuration, before any
\* send; the sequence counter is anywhere, its wrap included
InitGood ==
    /\ s_driver_initialized = TRUE
    /\ s_config \in Configs
    /\ s_send_ctx = ZeroCtx
    /\ s_send_done_callback = NULL
    /\ s_send_mutex = [handle |-> 1, owner |-> NO_TASK]
    /\ s_send_event_group = [handle |-> 1, bits |-> {}]
    /\ s_tx_packets = <<>>
    /\ s_current_dest_mac = NULL
    /\ sequence_num \in SeqStarts
    /\ link_up = TRUE
    /\ link_pending = {}
    /\ task = [t \in Tasks |-> IdleTask]
    /\ calls = 0
    /\ inits = 1
    /\ tx_calls = <<>>
    /\ last_tx = NoTx
    /\ ApiQuiet

SpecGood == InitGood /\ [][NextGood]_vars

\* the chunk indices 0 .. n-1 in transmit order
FirstChunks(n) == [k \in 1..n |-> k - 1]

\* the call of task t returns in this step
Returns(t) == task[t].pc # "idle" /\ task'[t].pc = "idle"

(***************************************************************************)
(* C27: over a link that accepts every frame and completes each one        *)
(* successfully, a send of L bytes, 1 <= L <= 6400, hands exactly           *)
(* ceil(L/200) frames to the link: every frame is the first attempt of its  *)
(* fragment, the fragments go out in the order 0, 1, ..., ceil(L/200) - 1,  *)
(* all carry the sequence number the call drew, and the call returns ESP_OK *)
(* after the last of them.                                                  *)
(***************************************************************************)
C27_GoodLinkSendsEachFragmentOnce ==
    [][\A t \in Tasks :
          (task[t].len >= 1 /\ task[t].len <= MAX_SEND_LEN) =>
             /\ Submits(t) =>
                   /\ task[t].h_attempts = 0
                   /\ task[t].h_chunks = FirstChunks(task[t].i)
                   /\ task[t].i < CeilChunks(task[t].len)
                   /\ last_tx'.call = task[t].call
                   /\ last_tx'.header.chunk_index = task[t].i
                   /\ last_tx'.header.packet_sequence = task[t].seq
                   /\ task[t].i > 0 =>
                         last_tx.header.packet_sequence = task[t].seq
             /\ Returns(t) =>
                   /\ task[t].h_chunks = FirstChunks(CeilChunks(task[t].len))
                   /\ task[t].h_attempts = 1
                   /\ task'[t].ret = ESP_OK
      ]_vars

\* a send of 480 bytes by the node that may retry once has returned ESP_OK;
\* the frame handed over last was its third fragment of three, with 80 bytes
C27_Witness ==
    /\ task["task_a"].pc = "idle"
    /\ task["task_a"].ret = ESP_OK
    /\ task["task_a"].exit = "sent"
    /\ s_config.max_retries = 1
    /\ last_tx.call = task["task_a"].call
    /\ last_tx.header.chunk_index = 2
    /\ last_tx.header.total_chunks = 3
    /\ last_tx.header.payload_length = 80
    /\ last_tx.size = PACKET_HEADER_SIZE + 80

(***************************************************************************)
(* The loop-back specification: a caller that holds the send mutex         *)
(* fragments a buffer of a length in LoopLens (lines 407-416); each frame  *)
(* that send_packet_with_retry would hand to esp_now_send for one of the   *)
(* fragments is delivered, byte for byte and in any order, to the receive  *)
(* handler of a driver that runs the same code; the application registers  *)
(* its receive callback at some moment.                                    *)
(***************************************************************************)
LoopLens ==
    (1..20)
    \cup {ESPNOW_MAX_PAYLOAD_SIZE * n + d : n \in {1, 2, TX_SLOTS}, d \in {-1, 0}}
    \cup {ESPNOW_MAX_PAYLOAD_SIZE * n + 1 : n \in {1, 2, TX_SLOTS - 1}}

InitLoop == InitFrag /\ task["task_a"].len \in LoopLens

\* the bytes of the frame of fragment i, as the link layer carries them to the
\* peer's receive handler
OnAir(t, i) ==
    Datagram(PEER_MAC, -55, PacketBytes(Frame(t, TxSlot(s_tx_packets, i))))

Deliver(t, i, beyond) ==
    /\ task[t].pc = "fragmented"
    /\ i < task[t].total_chunks
    /\ espnow_recv_cb(OnAir(t, i), beyond)

NextLoop ==
    \/ espnow_driver_register_recv_cb("on_receive") /\ UNCHANGED api
    \/ SendFragment("task_a") /\ UNCHANGED apiVars
    \/ \E i \in 0..(TX_SLOTS - 1), beyond \in BeyondBytes :
          Deliver("task_a", i, beyond)

SpecLoop == InitLoop /\ [][NextLoop]_vars

\* the bytes of the caller's buffer that fragment i carries
BufferSlice(data, len, i) ==
    [k \in 0..(fragment_chunk_size(len, i) - 1) |->
        DataByte(data, fragment_offset(i) + k)]

(***************************************************************************)
(* C29: sender and receiver agree on the checksum: every frame the send    *)
(* path produces for a fragment of a buffer of 1 to 6400 bytes, delivered   *)
(* unmodified to the receive handler while a receive callback is           *)
(* registered, passes the handler's validation, and the callback is given  *)
(* exactly that fragment's bytes of the buffer and their number.           *)
(***************************************************************************)
C29_SentFramePassesReceiver ==
    [][(Ran /\ s_recv_callback # NULL) =>
          LET t == "task_a"
              i == LastRx.data[1][4]
          IN  /\ LastRx = OnAir(t, i)
              /\ task[t].len >= 1
              /\ task[t].len <= MAX_SEND_LEN
              /\ h_recv'.passed
              /\ Invoked
              /\ h_recv'.src = PEER_MAC
              /\ h_recv'.len = fragment_chunk_size(task[t].len, i)
              /\ h_recv'.data = <<BufferSlice(task[t].data, task[t].len, i)>>
      ]_vars

\* the one-byte last fragment of a 6201-byte buffer, the 32nd, has been
\* delivered to the callback: the last byte of the buffer
C29_Witness ==
    /\ h_recv.cb = "on_receive"
    /\ h_recv.passed
    /\ task["task_a"].len = MAX_SEND_LEN - ESPNOW_MAX_PAYLOAD_SIZE + 1
    /\ h_recv.rx[1].data[1][4] = TX_SLOTS - 1
    /\ h_recv.rx[1].len = PACKET_HEADER_SIZE + 1
    /\ h_recv.len = 1
    /\ h_recv.data = <<[k \in {0} |->
                          DataByte("sensor_data",
                                   MAX_SEND_LEN - ESPNOW_MAX_PAYLOAD_SIZE)]>>

(***************************************************************************)
(* MAC address utilities.  A C string is the sequence of its characters    *)
(* before the terminating zero; a MAC address mac[0..5] is the tuple of    *)
(* its six bytes.                                                          *)
(***************************************************************************)
HexUpper == <<"0", "1", "2", "3", "4", "5", "6", "7", "8", "9",
              "A", "B", "C", "D", "E", "F">>
HexLower == <<"0", "1", "2", "3", "4", "5", "6", "7", "8", "9",
              "a", "b", "c", "d", "e", "f">>

IsHexDigit(c) == \E v \in 1..16 : HexUpper[v] = c \/ HexLower[v] = c

HexValue(c) == (CHOOSE v \in 1..16 : HexUpper[v] = c \/ HexLower[v] = c) - 1

\* the conversion %02X of sprintf, for an unsigned char
FormatByte(b) == <<HexUpper[(b \div 16) + 1], HexUpper[(b % 16) + 1]>>

\* lines 51-54: what sprintf writes to str
espnow_mac_to_str(mac) ==
    FormatByte(mac[1]) \o <<":">> \o FormatByte(mac[2]) \o <<":">>
       \o FormatByte(mac[3]) \o <<":">> \o FormatByte(mac[4]) \o <<":">>
       \o FormatByte(mac[5]) \o <<":">> \o FormatByte(mac[6])

\* a conversion of sscanf skips white space first
RECURSIVE SkipSpace(_, _)
SkipSpace(str, p) ==
    IF p <= Len(str) /\ str[p] = " " THEN SkipSpace(str, p + 1) ELSE p

\* the end of the run of hex digits that starts at p
RECURSIVE DigitsEnd(_, _)
DigitsEnd(str, p) ==
    IF p <= Len(str) /\ IsHexDigit(str[p]) THEN DigitsEnd(str, p + 1) ELSE p

\* the digits from p up to q, stored through an unsigned char pointer (hh)
RECURSIVE DigitsValue(_, _, _, _)
DigitsValue(str, p, q, acc) ==
    IF p >= q THEN acc
    ELSE DigitsValue(str, p + 1, q, (acc * 16 + HexValue(str[p])) % UINT8_MOD)

\* one %hhx directive of sscanf at position p: white space, an optional sign,
\* an optional 0x before a digit, then hex digits without a width limit
ScanHhx(str, p) ==
    LET a == SkipSpace(str, p)
        neg == a <= Len(str) /\ str[a] = "-"
        b == IF a <= Len(str) /\ str[a] \in {"+", "-"} THEN a + 1 ELSE a
        pre == /\ b + 2 <= Len(str)
               /\ str[b] = "0"
               /\ str[b + 1] \in {"x", "X"}
               /\ IsHexDigit(str[b + 2])
        c == IF pre THEN b + 2 ELSE b
        d == DigitsEnd(str, c)
        v == DigitsValue(str, c, d, 0)
    IN  [eof |-> a > Len(str),
         matched |-> d > c,
         value |-> IF neg THEN (UINT8_MOD - v) % UINT8_MOD ELSE v,
         next |-> d]

\* lines 57-58: sscanf with "%hhx:%hhx:%hhx:%hhx:%hhx:%hhx" from position p,
\* n conversions done and stored in mac; it returns after the sixth
\* conversion without looking at what follows, at the first directive that
\* does not match with the number of conversions done, and EOF (-1) when
\* the input ends before the first conversion
RECURSIVE ScanMac(_, _, _, _)
ScanMac(str, p, n, mac) ==
    IF n = 6 THEN [count |-> 6, mac |-> mac]
    ELSE IF n > 0 /\ ~(p <= Len(str) /\ str[p] = ":")
    THEN [count |-> n, mac |-> mac]
    ELSE LET f == ScanHhx(str, IF n > 0 THEN p + 1 ELSE p)
         IN  IF f.matched
             THEN ScanMac(str, f.next, n + 1, Append(mac, f.value))
             ELSE [count |-> IF n = 0 /\ f.eof THEN -1 ELSE n, mac |-> mac]

\* lines 56-62: the return value and the bytes stored in mac
espnow_str_to_mac(str) ==
    LET scanned == ScanMac(str, 1, 0, <<>>)
    IN  [err |-> IF scanned.count # 6 THEN ESP_ERR_INVALID_ARG ELSE ESP_OK,
         mac |-> scanned.mac]

(***************************************************************************)
(* The address codec specification: the application formats addresses and  *)
(* parses strings, among them the string the last espnow_mac_to_str wrote. *)
(***************************************************************************)
\* every byte value in every position, and all addresses of two byte values
Addresses ==
    {<<b, (b + 1) % UINT8_MOD, UINT8_MOD - 1 - b, (b * 16) % UINT8_MOD, b, b>> :
        b \in 0..(UINT8_MOD - 1)}
    \cup [1..6 -> {0, 171}]

\* strings a caller passes: well-formed ones in upper case, lower case and
\* with one-digit values; text that is no address; five values; five values
\* and a colon; dashes for colons; the empty string; seven values; six
\* values followed by text; a first value that is wider than a byte
MacStrings ==
    {<<"2", "4", ":", "6", "F", ":", "2", "8", ":", "A", "A", ":", "B", "B",
       ":", "C", "C">>,
     <<"a", "a", ":", "b", "b", ":", "c", "c", ":", "d", "d", ":", "e", "e",
       ":", "f", "f">>,
     <<"1", ":", "2", ":", "3", ":", "4", ":", "5", ":", "6">>,
     <<"n", "o", "t", "-", "a", "-", "m", "a", "c">>,
     <<"A", "A", ":", "B", "B", ":", "C", "C", ":", "D", "D", ":", "E", "E">>,
     <<"A", "A", ":", "B", "B", ":", "C", "C", ":", "D", "D", ":", "E", "E",
       ":">>,
     <<"A", "A", "-", "B", "B", "-", "C", "C", "-", "D", "D", "-", "E", "E",
       "-", "F", "F">>,
     <<>>,
     <<"A", "A", ":", "B", "B", ":", "C", "C", ":", "D", "D", ":", "E", "E",
       ":", "F", "F", ":", "0", "0">>,
     <<"A", "A", ":", "B", "B", ":", "C", "C", ":", "D", "D", ":", "E", "E",
       ":", "F", "F", "g", "h">>,
     <<"1", "A", "A", ":", "B", "B", ":", "C", "C", ":", "D", "D", ":", "E",
       "E", ":", "F", "F">>}

CodecQuiet ==
    UNCHANGED <<driverVars, sendVars, link_pending, inits, s_send_done_callback,
                s_recv_callback, s_last_rssi, link_peers, waiter, h_entry, link_depth,
                h_reg, h_recv>>

CallMacToStr(mac) ==
    /\ ApiCall("mac_to_str", mac, NULL, espnow_mac_to_str(mac))
    /\ CodecQuiet

CallStrToMac(str) ==
    /\ ApiCall("str_to_mac", str, NULL, espnow_str_to_mac(str))
    /\ CodecQuiet

NextCodec ==
    \/ \E mac \in Addresses : CallMacToStr(mac)
    \/ \E str \in MacStrings : CallStrToMac(str)
    \/ api.op = "mac_to_str" /\ CallStrToMac(api.ret)

SpecCodec == Init /\ [][NextCodec]_vars

\* the values between the colons of a string
RECURSIVE Split(_, _, _)
Split(str, p, field) ==
    IF p > Len(str) THEN <<field>>
    ELSE IF str[p] = ":" THEN <<field>> \o Split(str, p + 1, <<>>)
    ELSE Split(str, p + 1, Append(field, str[p]))

IsHexByte(field) ==
    Len(field) \in 1..2 /\ \A k \in 1..Len(field) : IsHexDigit(field[k])

\* exactly six colon-separated hex byte values
SixHexBytes(str) ==
    LET fields == Split(str, 1, <<>>)
    IN  Len(fields) = 6 /\ \A k \in 1..6 : IsHexByte(fields[k])

\* parsing the string espnow_mac_to_str wrote for an address gives ESP_OK and
\* that address
CodecRoundTrip ==
    api.op = "str_to_mac" =>
       \A a \in Addresses :
          api.arg = espnow_mac_to_str(a) => api.ret = [err |-> ESP_OK, mac |-> a]

CodecRoundTripDone ==
    /\ api.op = "str_to_mac"
    /\ api.arg = espnow_mac_to_str(<<254, 255, 1, 224, 254, 254>>)
    /\ api.ret = [err |-> ESP_OK, mac |-> <<254, 255, 1, 224, 254, 254>>]

(***************************************************************************)
(* C30: for every 6-byte address a, espnow_str_to_mac of the string that   *)
(* espnow_mac_to_str wrote for a returns ESP_OK and stores a; for every     *)
(* string that is not exactly six colon-separated hex byte values (fewer    *)
(* values, more values, text that is not hex) it returns                    *)
(* ESP_ERR_INVALID_ARG.                                                     *)
(***************************************************************************)
C30_AddressCodecRoundTripAndRejects ==
    /\ CodecRoundTrip
    /\ api.op = "str_to_mac" =>
          (~SixHexBytes(api.arg) => api.ret.err = ESP_ERR_INVALID_ARG)

(***************************************************************************)
(* The late-completion specification: an initialised driver over a link    *)
(* layer that takes a second transmit while the completion of an earlier   *)
(* one is still outstanding, and delivers each completion at any later     *)
(* time or never; one task sends.                                          *)
(***************************************************************************)
LateDepth == 2

LateArgs ==
    {[dest |-> PEER_MAC, data |-> "sensor_data", len |-> 1],
     [dest |-> PEER_MAC, data |-> "sensor_data",
      len |-> ESPNOW_MAX_PAYLOAD_SIZE + 1]}

InitLate ==
    /\ s_driver_initialized = TRUE
    /\ s_config \in Configs
    /\ s_send_ctx = ZeroCtx
    /\ s_send_done_callback = NULL
    /\ s_send_mutex = [handle |-> 1, owner |-> NO_TASK]
    /\ s_send_event_group = [handle |-> 1, bits |-> {}]
    /\ s_tx_packets = <<>>
    /\ s_current_dest_mac = NULL
    /\ sequence_num = 0
    /\ link_up = TRUE
    /\ link_pending = {}
    /\ task = [t \in Tasks |-> IdleTask]
    /\ calls = 0
    /\ inits = 1
    /\ tx_calls = <<>>
    /\ last_tx = NoTx
    /\ s_recv_callback = NULL
    /\ s_last_rssi = 0
    /\ link_peers = {}
    /\ waiter = IdleWaiter
    /\ h_entry = [t \in Tasks |-> "none"]
    /\ link_depth = LateDepth
    /\ api = NoCall
    /\ h_reg = NoReg
    /\ h_recv = NoRecv

LateSender(t) ==
  /\ UNCHANGED apiVars
  /\
    \/ \E a \in LateArgs : SendEntry(t, a.dest, a.data, a.len)
    \/ SendTake(t)
    \/ SendFragment(t)
    \/ SendBegin(t)
    \/ SendLoop(t)
    \/ \E accepted \in BOOLEAN : RetryAttempt(t, accepted)
    \/ WaitDone(t)
    \/ WaitTimeout(t)
    \/ RetryExhausted(t)
    \/ ChunkDone(t)
    \/ SendFinish(t)
    \/ SendFinishState(t)
    \/ SendNotify(t)
    \/ SendGive(t)

NextLate == LateSender("task_a") \/ LinkStep

SpecLate == InitLate /\ [][NextLate]_vars

\* the transmit that the attempt task t is waiting for has submitted
OwnTransmit(t) ==
    [call |-> task[t].call, chunk |-> task[t].i, retry |-> task[t].retry]

\* send_packet_with_retry returns ESP_OK to task t in this step (line 213)
FragmentSendOk(t) ==
    /\ task[t].pc = "wait"
    /\ task'[t].pc = "chunk_done"
    /\ task'[t].err = ESP_OK

(***************************************************************************)
(* C31: a fragment send returns ESP_OK only on the successful completion   *)
(* of a transmit that the same attempt submitted: when it returns ESP_OK,  *)
(* the link has reported the completion of that attempt's transmit; the    *)
(* completion of a transmit of an earlier attempt, fragment or call that   *)
(* arrives after the attempt cleared the event bits is not taken for it.   *)
(***************************************************************************)
C31_OkOnlyOnOwnCompletion ==
    [][\A t \in Tasks :
          FragmentSendOk(t) => OwnTransmit(t) \notin link_pending
      ]_vars

(***************************************************************************)
(* Properties of the backoff delays, under the retry specification.        *)
(***************************************************************************)
\* send_packet_with_retry has given up on the fragment of task t (line 226)
FragmentSendFailed(t) ==
    task[t].pc = "chunk_done" /\ task[t].err # ESP_OK

(***************************************************************************)
(* C32: a backoff delay is applied only between two attempts: when a       *)
(* fragment send has returned its error, it has slept one time less than   *)
(* it has attempted, and not at all when max_retries is 0.                 *)
(***************************************************************************)
C32_NoBackoffAfterLastAttempt ==
    \A t \in Tasks :
       FragmentSendFailed(t) =>
          /\ task[t].h_slept = task[t].h_attempts - 1
          /\ s_config.max_retries = 0 => task[t].h_slept = 0

\* task t enters a backoff delay in this step
Sleeps(t) == task'[t].h_slept = task[t].h_slept + 1

(***************************************************************************)
(* C33: the backoff delay after the k-th consecutive failed attempt of a   *)
(* fragment is 10 ms * 2^k, whatever the kind of the failure: 20 ms after  *)
(* the first and twice the previous delay after every later one, so the    *)
(* delays of one fragment send never decrease, for every k up to           *)
(* max_retries + 1.                                                        *)
(***************************************************************************)
C33_BackoffDoubles ==
    [][\A t \in Tasks :
          (Sleeps(t) /\ task'[t].h_slept <= s_config.max_retries + 1) =>
             /\ IF task[t].h_slept = 0
                THEN task'[t].h_delay = 20
                ELSE /\ task'[t].h_delay % 2 = 0
                     /\ task'[t].h_delay \div 2 = task[t].h_delay
             /\ task'[t].h_delay >= task[t].h_delay
      ]_vars

\* esp_now_send returns an error to task t in this step: the link takes nothing
SubmitRejected(t) == Submits(t) /\ link_pending' = link_pending

(***************************************************************************)
(* C34: when esp_now_send returns an error, the attempt counts as one      *)
(* failed attempt (retry goes up by one) and the sender does not wait for  *)
(* a completion: it sleeps the backoff delay and is at the loop test next, *)
(* with the event bits as the attempt cleared them.                        *)
(***************************************************************************)
C34_SubmitErrorIsFailedAttempt ==
    [][\A t \in Tasks :
          SubmitRejected(t) =>
             /\ task'[t].retry = (task[t].retry + 1) % UINT8_MOD
             /\ task'[t].h_attempts = task[t].h_attempts + 1
             /\ task'[t].pc = "attempt"
             /\ task'[t].h_cause = "submit_error"
             /\ Sleeps(t)
             /\ s_send_event_group'.bits = {}
      ]_vars

\* the second attempt of a fragment was rejected right after the first
C34_Witness ==
    /\ task["task_a"].pc = "attempt"
    /\ task["task_a"].h_cause = "submit_error"
    /\ task["task_a"].retry = 2
    /\ task["task_a"].h_attempts = 2
    /\ task["task_a"].h_slept = 2
    /\ task["task_a"].h_delay = 40
    /\ link_pending = {}
    /\ s_config.max_retries = 3

(***************************************************************************)
(* The send state machine.                                                 *)
(***************************************************************************)
Transmits(t) ==
    /\ task[t].pc = "attempt"
    /\ task'[t].pc \in {"attempt", "wait"}
    /\ task'[t] # task[t]

Completes ==
    /\ link_pending' # link_pending
    /\ link_pending' \subseteq link_pending
    /\ <<s_send_ctx, s_send_event_group>>' # <<s_send_ctx, s_send_event_group>>

Finishes(t) == task[t].pc = "finish_state" /\ task'[t].pc = "notify"

SentReturn(t) == Returns(t) /\ task'[t].exit = "sent"

LockFree == s_send_mutex.owner = NO_TASK

C36_QuiescentWhenLockFree ==
    [][/\ LockFree' =>
            /\ ~s_send_ctx'.is_sending
            /\ s_send_ctx'.state # ESPNOW_STATE_SENDING
       /\ (LockFree /\ Completes) =>
            /\ s_send_ctx'.state = s_send_ctx.state
            /\ (s_send_ctx'.state = ESPNOW_STATE_IDLE)
                  = (s_send_ctx.state = ESPNOW_STATE_IDLE)]_vars

(***************************************************************************)
(* C37: whenever the receive callback is invoked, the length it is given   *)
(* is at most 200 and at most the datagram's length less the 9 header      *)
(* bytes, and the bytes the handler checksummed end inside the datagram.   *)
(***************************************************************************)
C37_DeliversInsideDatagram ==
    [][Invoked =>
          /\ h_recv'.len <= ESPNOW_MAX_PAYLOAD_SIZE
          /\ h_recv'.len <= LastRx.len - PACKET_HEADER_SIZE
          /\ h_recv'.span <= LastRx.len]_vars

(***************************************************************************)
(* C38: a send call holds the send mutex exactly from its take to its      *)
(* return: the mutex is released only in the step in which its holder      *)
(* returns, every return of a call that took it releases it, and so no     *)
(* call that has returned holds it; a later call takes it.                 *)
(***************************************************************************)
Holds(t) == task[t].pc \notin {"idle", "take"}

C38_LockReleasedOnEveryReturn ==
    [][/\ \A t \in Tasks :
            /\ (Holds(t) /\ Returns(t)) =>
                  /\ s_send_mutex.owner = t
                  /\ s_send_mutex'.owner = NO_TASK
                  /\ task'[t].exit \in {"sent", "too_large"}
            /\ (s_send_mutex.owner = t /\ s_send_mutex'.owner # t) =>
                  Holds(t) /\ Returns(t)
            /\ (s_send_mutex'.owner = t) = Holds(t)'
       /\ (\A t \in Tasks : task'[t].pc = "idle") =>
            s_send_mutex'.owner = NO_TASK]_vars

\* task_b holds the mutex after an earlier call of task_a, which took it and
\* was refused for its size, has returned
C38_Witness ==
    /\ task["task_a"].pc = "idle"
    /\ task["task_a"].exit = "too_large"
    /\ task["task_a"].ret = ESP_ERR_INVALID_SIZE
    /\ task["task_b"].pc = "locked"
    /\ task["task_b"].call > task["task_a"].call
    /\ s_send_mutex.owner = "task_b"

(***************************************************************************)
(* espnow_driver_deinit while a send is in progress.  Lines 311-319 delete *)
(* the mutex and the event group and store NULL in both handles; nothing   *)
(* in espnow_driver_deinit looks at the mutex or at is_sending first.  A   *)
(* task blocked in xEventGroupWaitBits on the deleted group is woken with  *)
(* no bits set, which the sender takes for a timeout.  A FreeRTOS call on  *)
(* a NULL handle (xSemaphoreTake 398, xEventGroupClearBits 184,            *)
(* xSemaphoreGive 451) fails its configASSERT or dereferences NULL: the    *)
(* task faults and the call never returns.                                 *)
(***************************************************************************)
WaitDeleted(t) ==
    /\ task[t].pc = "wait"
    /\ s_send_event_group.handle = NULL_HANDLE
    /\ \E delay \in BackoffDelays((task[t].retry + 1) % UINT8_MOD) :
          SetTask(t, Backoff(task[t], "timeout", delay))
    /\ UNCHANGED <<driverVars, s_send_done_callback, s_tx_packets,
                   s_current_dest_mac, sequence_num, link_pending, calls, inits,
                   tx_calls, last_tx>>

UseDeleted(t) ==
    /\ \/ task[t].pc \in {"take", "give"} /\ s_send_mutex.handle = NULL_HANDLE
       \/ /\ task[t].pc = "attempt"
          /\ task[t].retry <= s_config.max_retries
          /\ s_send_event_group.handle = NULL_HANDLE
    /\ SetTask(t, [task[t] EXCEPT !.pc = "fault"])
    /\ UNCHANGED <<driverVars, s_send_done_callback, s_tx_packets,
                   s_current_dest_mac, sequence_num, link_pending, calls, inits,
                   tx_calls, last_tx>>

NextDeinit ==
    \/ SenderStep("task_a")
    \/ WaitDeleted("task_a") /\ UNCHANGED apiVars
    \/ UseDeleted("task_a") /\ UNCHANGED apiVars
    \/ LinkStep
    \/ DriverDeinit /\ UNCHANGED api

SpecDeinit == InitWait /\ [][NextDeinit]_vars

\* C39: a send call that holds the send mutex always finds the mutex and
\* the event group in existence, whatever espnow_driver_deinit does
\* meanwhile, and never faults on one of them: it goes on to its return.
C39_DeinitLeavesSendIntact ==
    \A t \in Tasks :
       Holds(t) =>
          /\ s_send_mutex.handle # NULL_HANDLE
          /\ s_send_event_group.handle # NULL_HANDLE
          /\ task[t].pc # "fault"

(***************************************************************************)
(* The init specification: espnow_driver_init with and without encryption  *)
(* under every outcome of the primitives it calls, espnow_driver_deinit    *)
(* between sends, one sending task and the link.  For a call of init the   *)
(* api record keeps the outcome in its link field.                         *)
(***************************************************************************)
InitConfigs ==
    {InstalledConfig, [InstalledConfig EXCEPT !.enable_encryption = TRUE]}

NextInit ==
    \/ \E c \in InitConfigs, outcome \in InitOutcomes :
          /\ DriverInit(<<c>>, outcome)
          /\ ApiCall("init", <<c>>, outcome,
                     espnow_driver_init_ret(<<c>>, outcome))
    \/ /\ NoSendInProgress
       /\ DriverDeinit
       /\ ApiCall("deinit", NULL, NULL, espnow_driver_deinit_ret)
    \/ LateSender("task_a")
    \/ LinkStep

SpecInit == Init /\ [][NextInit]_vars

\* C40: an espnow_driver_init on an uninitialised driver marks the driver
\* initialised exactly when the allocations, esp_now_init, esp_now_set_pmk
\* (called only with encryption enabled) and both registrations succeeded,
\* and then returns ESP_OK with the link up and the send state Idle,
\* whatever came before; a failing init leaves the driver uninitialised and
\* the link down; and only such an init sets s_driver_initialized.
C40_InitializedOnlyOnFullSuccess ==
    [][/\ (Called("init") /\ ~s_driver_initialized) =>
            LET config == api'.arg
                outcome == api'.link
                good == /\ outcome \notin {"no_mem_mutex", "no_mem_event_group",
                                            "init_fail", "reg_send_fail",
                                            "reg_recv_fail"}
                        /\ outcome = "pmk_fail" => ~config[1].enable_encryption
            IN  /\ s_driver_initialized' = good
                /\ (api'.ret = ESP_OK) = good
                /\ good => /\ link_up'
                           /\ s_send_mutex'.handle # NULL_HANDLE
                           /\ s_send_event_group'.handle # NULL_HANDLE
                           /\ s_send_ctx'.state = ESPNOW_STATE_IDLE
                /\ ~good => ~link_up'
       /\ (s_driver_initialized' /\ ~s_driver_initialized) =>
            Called("init") /\ api'.ret = ESP_OK]_vars

\* an init with encryption enabled has just failed at the registration of
\* the receive handler, after an earlier init had succeeded and a send had
\* failed: the driver is uninitialised and the link is down again
C40_Witness ==
    /\ api.op = "init"
    /\ api.link = "reg_recv_fail"
    /\ api.arg # <<>>
    /\ api.arg[1].enable_encryption
    /\ api.ret = ESP_ERR_ESPNOW_INTERNAL
    /\ inits = 2
    /\ s_send_ctx.state = ESPNOW_STATE_FAILED
    /\ ~s_driver_initialized
    /\ ~link_up

====
